---------------------------- MODULE Spec2Model ----------------------------
(***************************************************************************)
(* Request lifecycle and authorization engine of the service-centre        *)
(* application: rbac.py (permission predicates), usecases.py (save,        *)
(* delete, comment, help-request use cases), the parts of services.py they *)
(* call, the tables of models.py they read and write, and the              *)
(* commit / rollback wrapper of the handlers in main.py.                   *)
(*                                                                         *)
(* A use case is an operator from (session, acting user, input) to a       *)
(* record [exc, db, id]: exc is "ok" or the error class raised, db is the   *)
(* session at that point, id the row returned.  A handler action commits   *)
(* db when nothing was raised and rolls back otherwise.                    *)
(***************************************************************************)
EXTENDS Integers, Sequences, FiniteSets, TLC

VARIABLES
    statuses,          \* table request_status: id -> [name, is_final]
    tickets,           \* table repair_request: id -> row
    helps,             \* table help_request: id -> row
    comments,          \* table request_comment: id -> row
    equipment_models,  \* table equipment_model: id -> [equipment_type_id, name]
    issue_types,       \* table issue_type: id -> [name]
    seq,               \* last id handed out per table (ids are never reused)
    last,              \* the last call: [op, exc], exc the error it ended with
    txn,               \* create_help_request calls in flight: process -> [pc, user, data]
    probe              \* a permission predicate applied to given arguments

vars == <<statuses, tickets, helps, comments, equipment_models, issue_types,
          seq, last, txn, probe>>

-----------------------------------------------------------------------------
(* Bounds of the model. *)

MaxTickets == 1
MaxHelps == 2
MaxComments == 1
MaxDate == 2
\* help requests in the specification of the close inputs
MaxHelpsClose == 1
\* concurrent create_help_request calls
NumTxns == 2
\* ids of the status objects user_can_change_status is applied to
MaxStatusId == 2
\* rows of the request_status table in the specification of its configurations
MaxStatuses == 2

-----------------------------------------------------------------------------
(* Values. *)

\* Python None in an integer-valued (id, date, timestamp) position.
NULL == -1

\* Python None in a text-valued position; a text t that is present is <<t>>.
NoText == <<>>

\* Role names, services.py:17-22 (transliterated: the module is ASCII).
ROLE_MANAGER == "Manager"
ROLE_MASTER == "Master"
ROLE_SPECIALIST == "Specialist"
ROLE_OPERATOR == "Operator"
ROLE_CLIENT == "Client"
ROLE_QUALITY_MANAGER == "QualityManager"

\* The name get_new_request_status looks for (services.py:383).
NEW_REQUEST_STATUS_NAME == "NewRequest"

\* The issue-type name of a blank description (services.py:144).
NOT_SPECIFIED == <<"NotSpecified">>

\* Table app_user joined with user_role: user id -> role name.  User 7 has no
\* role (rbac.role_name gives "" for it); user 8 has a role that is none of
\* the six the engine knows.
users ==
    (1 :> ROLE_MANAGER) @@ (2 :> ROLE_OPERATOR) @@ (3 :> ROLE_QUALITY_MANAGER) @@
    (4 :> ROLE_MASTER) @@ (5 :> ROLE_SPECIALIST) @@ (6 :> ROLE_CLIENT) @@ (7 :> "") @@
    (8 :> "Guest")

UserIds == DOMAIN users

\* The request_status table the ticket workflow runs on: two non-final and
\* two final statuses.
StatusTable ==
    (1 :> [name |-> NEW_REQUEST_STATUS_NAME, is_final |-> FALSE]) @@
    (2 :> [name |-> "InProgress", is_final |-> FALSE]) @@
    (3 :> [name |-> "Ready", is_final |-> TRUE]) @@
    (4 :> [name |-> "Completed", is_final |-> TRUE])

Dates == 1..MaxDate

-----------------------------------------------------------------------------
(* Text: a tuple of one-character strings. *)

IsSpace(c) == c = " "

RECURSIVE LStrip(_)
LStrip(s) ==
    IF s = <<>> THEN <<>>
    ELSE IF IsSpace(Head(s)) THEN LStrip(Tail(s)) ELSE s

RECURSIVE RStrip(_)
RStrip(s) ==
    IF s = <<>> THEN <<>>
    ELSE IF IsSpace(s[Len(s)]) THEN RStrip(SubSeq(s, 1, Len(s) - 1)) ELSE s

\* str.strip()
Strip(s) == RStrip(LStrip(s))

\* (x or "") for an Optional[str] x
OrEmpty(opt) == IF opt = NoText THEN <<>> ELSE opt[1]

\* (text or None)
OrNone(s) == IF s = <<>> THEN NoText ELSE <<s>>

-----------------------------------------------------------------------------
(* services.py *)

is_master_role(role) == role \in {ROLE_MASTER, ROLE_SPECIALIST}

-----------------------------------------------------------------------------
(* rbac.py.  A user is its id; a ticket (req) is its row; a status is        *)
(* [id, is_final].                                                          *)

role_name(user) == IF user \in UserIds THEN users[user] ELSE ""

user_can_create_request(user) ==
    role_name(user) \in
        {ROLE_MANAGER, ROLE_OPERATOR, ROLE_QUALITY_MANAGER, ROLE_CLIENT}

\* Mutant of user_can_view_request: a master-class user sees every ticket.
user_can_view_request_AnyMaster(user, req) ==
    LET r == role_name(user) IN
    IF r \in {ROLE_MANAGER, ROLE_OPERATOR, ROLE_QUALITY_MANAGER} THEN TRUE
    ELSE IF is_master_role(r) THEN TRUE
    ELSE IF r = ROLE_CLIENT THEN req.client_id = user
    ELSE FALSE

user_can_view_request(user, req) ==
    LET r == role_name(user) IN
    IF r \in {ROLE_MANAGER, ROLE_OPERATOR, ROLE_QUALITY_MANAGER} THEN TRUE
    ELSE IF is_master_role(r) THEN req.master_id = user
    ELSE IF r = ROLE_CLIENT THEN req.client_id = user
    ELSE FALSE

\* Mutant of user_can_edit_request: the owning client may edit whatever the
\* status.
user_can_edit_request_NoFinalLock(user, req, status_is_final) ==
    LET r == role_name(user) IN
    IF r \in {ROLE_MANAGER, ROLE_OPERATOR, ROLE_QUALITY_MANAGER} THEN TRUE
    ELSE IF is_master_role(r) THEN req.master_id = user
    ELSE IF r = ROLE_CLIENT THEN req.client_id = user
    ELSE FALSE

\* Mutant of user_can_edit_request: a master-class user may edit every
\* ticket.
user_can_edit_request_AnyMaster(user, req, status_is_final) ==
    LET r == role_name(user) IN
    IF r \in {ROLE_MANAGER, ROLE_OPERATOR, ROLE_QUALITY_MANAGER} THEN TRUE
    ELSE IF is_master_role(r) THEN TRUE
    ELSE IF r = ROLE_CLIENT THEN req.client_id = user /\ ~status_is_final
    ELSE FALSE

\* status_is_final is req.status.is_final, the relationship the caller loads.
user_can_edit_request(user, req, status_is_final) ==
    LET r == role_name(user) IN
    IF r \in {ROLE_MANAGER, ROLE_OPERATOR, ROLE_QUALITY_MANAGER} THEN TRUE
    ELSE IF is_master_role(r) THEN req.master_id = user
    ELSE IF r = ROLE_CLIENT THEN req.client_id = user /\ ~status_is_final
    ELSE FALSE

\* Mutant of user_can_delete_request: the roles that may not delete are
\* listed, instead of those that may.
user_can_delete_request_DenyList(user) ==
    role_name(user) \notin
        {ROLE_QUALITY_MANAGER, ROLE_MASTER, ROLE_SPECIALIST, ROLE_CLIENT}

\* Mutant of user_can_delete_request: the QualityManager may delete, like
\* the other staff roles.
user_can_delete_request_Staff(user) ==
    role_name(user) \in {ROLE_MANAGER, ROLE_OPERATOR, ROLE_QUALITY_MANAGER}

user_can_delete_request(user) ==
    role_name(user) \in {ROLE_MANAGER, ROLE_OPERATOR}

\* Mutant of user_can_add_comment: any user of the master class may comment
\* on any ticket.
user_can_add_comment_AnyMaster(user, req) ==
    is_master_role(role_name(user))

user_can_add_comment(user, req) ==
    is_master_role(role_name(user)) /\ req.master_id = user

user_can_assign_master(user) ==
    role_name(user) \in {ROLE_MANAGER, ROLE_OPERATOR, ROLE_QUALITY_MANAGER}

\* Mutant of user_can_change_status: the final-to-non-final case of the
\* master class is not refused.
user_can_change_status_Reopen(user, old_status, new_status) ==
    LET r == role_name(user) IN
    IF r \in {ROLE_MANAGER, ROLE_OPERATOR, ROLE_QUALITY_MANAGER} THEN TRUE
    ELSE IF is_master_role(r) THEN TRUE
    ELSE IF r = ROLE_CLIENT THEN old_status.id = new_status.id
    ELSE FALSE

\* Mutant of user_can_change_status: a role the policy does not know is
\* allowed the no-op, like a Client.
user_can_change_status_NoOpForAll(user, old_status, new_status) ==
    LET r == role_name(user) IN
    IF r \in {ROLE_MANAGER, ROLE_OPERATOR, ROLE_QUALITY_MANAGER} THEN TRUE
    ELSE IF is_master_role(r) THEN
        IF old_status.id = new_status.id THEN TRUE
        ELSE IF old_status.is_final /\ ~new_status.is_final THEN FALSE
        ELSE TRUE
    ELSE old_status.id = new_status.id

user_can_change_status(user, old_status, new_status) ==
    LET r == role_name(user) IN
    IF r \in {ROLE_MANAGER, ROLE_OPERATOR, ROLE_QUALITY_MANAGER} THEN TRUE
    ELSE IF is_master_role(r) THEN
        IF old_status.id = new_status.id THEN TRUE
        ELSE IF old_status.is_final /\ ~new_status.is_final THEN FALSE
        ELSE TRUE
    ELSE IF r = ROLE_CLIENT THEN old_status.id = new_status.id
    ELSE FALSE

user_can_manage_users(user) == role_name(user) = ROLE_MANAGER

user_can_view_statistics(user) == role_name(user) = ROLE_MANAGER

user_can_view_quality_desk(user) ==
    role_name(user) \in {ROLE_QUALITY_MANAGER, ROLE_MANAGER}

user_can_create_help_request(user) == is_master_role(role_name(user))

\* Mutant of user_can_handle_help_request: the Operator is let in too.
user_can_handle_help_request_Operator(user) ==
    role_name(user) \in {ROLE_QUALITY_MANAGER, ROLE_MANAGER, ROLE_OPERATOR}

user_can_handle_help_request(user) ==
    role_name(user) \in {ROLE_QUALITY_MANAGER, ROLE_MANAGER}

-----------------------------------------------------------------------------
(* The session: the tables a use case reads and writes through db. *)

Db ==
    [statuses |-> statuses, tickets |-> tickets, helps |-> helps,
     comments |-> comments, equipment_models |-> equipment_models,
     issue_types |-> issue_types, seq |-> seq]

\* The value a use case returns: the error raised ("ok" when none), the
\* session at that point, and the id of the row returned (NULL on error).
Result(exc, db, id) == [exc |-> exc, db |-> db, id |-> id]

OK == "ok"

\* Python truthiness of an Optional[int]: None and 0 are falsy.
Truthy(x) == x /= NULL /\ x /= 0

\* table equipment_type (never written by the engine)
EquipmentTypeIds == {1}

\* DomainError.code of each error class (usecases.py:14-42)
CodeOf(exc) ==
    CASE exc = "PermissionDeniedError" -> "forbidden"
      [] exc = "StatusChangeForbiddenError" -> "forbidden_status_change"
      [] exc = "RequestNotFoundError" -> "request_not_found"
      [] exc = "HelpRequestNotFoundError" -> "help_not_found"
      [] exc = "HelpRequestAlreadyOpenError" -> "help_exists"
      [] exc = "BusinessRuleViolationError" -> "db_error"
      [] OTHER -> "error"

-----------------------------------------------------------------------------
(* services.py: reference data *)

IssueNameMax == 255
IssueNameCut == 252

normalize_issue_type_name(problem_description) ==
    LET text == Strip(problem_description) IN
    IF text = <<>> THEN NOT_SPECIFIED
    ELSE IF Len(text) <= IssueNameMax THEN text
    ELSE RStrip(SubSeq(text, 1, IssueNameCut)) \o <<".", ".", ".">>

\* Returns [exc, db, id].  db.flush() sends the INSERT, so a missing
\* equipment type fails there with an integrity error.
get_or_create_equipment_model(db, equipment_type_id, model_name) ==
    LET cleaned_name == Strip(model_name)
        existing == {i \in DOMAIN db.equipment_models :
                        /\ db.equipment_models[i].equipment_type_id = equipment_type_id
                        /\ db.equipment_models[i].name = cleaned_name}
        new_id == db.seq.equipment_model + 1
    IN  IF existing /= {}
        THEN Result(OK, db, CHOOSE i \in existing : \A j \in existing : i <= j)
        ELSE IF equipment_type_id \notin EquipmentTypeIds
        THEN Result("SQLAlchemyError", db, NULL)
        ELSE Result(OK,
                    [db EXCEPT !.equipment_models =
                                   @ @@ (new_id :> [equipment_type_id |-> equipment_type_id,
                                                    name |-> cleaned_name]),
                               !.seq.equipment_model = new_id],
                    new_id)

get_or_create_issue_type(db, problem_description) ==
    LET name == normalize_issue_type_name(problem_description)
        existing == {i \in DOMAIN db.issue_types : db.issue_types[i].name = name}
        new_id == db.seq.issue_type + 1
    IN  IF existing /= {}
        THEN Result(OK, db, CHOOSE i \in existing : \A j \in existing : i <= j)
        ELSE Result(OK,
                    [db EXCEPT !.issue_types = @ @@ (new_id :> [name |-> name]),
                               !.seq.issue_type = new_id],
                    new_id)

\* Returns the status id, or NULL where the code raises RuntimeError.
get_new_request_status(db) ==
    LET named == {i \in DOMAIN db.statuses : db.statuses[i].name = NEW_REQUEST_STATUS_NAME}
        nonfinal == {i \in DOMAIN db.statuses : ~db.statuses[i].is_final}
    IN  IF named /= {} THEN CHOOSE i \in named : \A j \in named : i <= j
        ELSE IF nonfinal /= {} THEN CHOOSE i \in nonfinal : \A j \in nonfinal : i <= j
        ELSE NULL

\* A RequestStatus object as rbac sees it.
StatusObj(db, id) == [id |-> id, is_final |-> db.statuses[id].is_final]

-----------------------------------------------------------------------------
(* usecases.py: save_request.  data is a RequestInput record; req is a      *)
(* ticket row with its id (NULL for an object not yet persisted).           *)

\* models.RepairRequest(): a new object, every attribute None.
NewRequest ==
    [id |-> NULL, start_date |-> NULL, equipment_model_id |-> NULL,
     issue_type_id |-> NULL, problem_description |-> <<>>, status_id |-> NULL,
     completion_date |-> NULL, due_date |-> NULL, repair_parts |-> NoText,
     master_id |-> NULL, client_id |-> NULL]

\* Returns [exc, db, equipment_model_id, issue_type_id].
_resolve_equipment_and_issue(db, data) ==
    LET em == get_or_create_equipment_model(db, data.equipment_type_id,
                                            data.equipment_model_name)
        it == IF Truthy(data.issue_type_id) /\ data.issue_type_id \in DOMAIN em.db.issue_types
              THEN Result(OK, em.db, data.issue_type_id)
              ELSE get_or_create_issue_type(em.db, data.problem_description)
    IN  IF em.exc /= OK
        THEN [exc |-> em.exc, db |-> em.db, equipment_model_id |-> NULL, issue_type_id |-> NULL]
        ELSE [exc |-> it.exc, db |-> it.db, equipment_model_id |-> em.id, issue_type_id |-> it.id]

\* Returns [exc, status_id].
_resolve_new_status_for_create(db, user, data) ==
    IF role_name(user) = ROLE_CLIENT THEN
        LET st == get_new_request_status(db) IN
        IF st = NULL THEN [exc |-> "RuntimeError", status_id |-> NULL]
        ELSE [exc |-> OK, status_id |-> st]
    ELSE IF data.status_id = NULL THEN
        [exc |-> "BusinessRuleViolationError", status_id |-> NULL]
    ELSE IF data.status_id \notin DOMAIN db.statuses THEN
        [exc |-> "BusinessRuleViolationError", status_id |-> NULL]
    ELSE [exc |-> OK, status_id |-> data.status_id]

\* Mutant of _resolve_new_status_for_update: a Client's submitted status is
\* resolved and checked like everybody else's.
_resolve_new_status_for_update_ClientChecked(db, user, req, data) ==
    LET old_status == StatusObj(db, req.status_id) IN
    IF data.status_id = NULL \/ data.status_id = old_status.id THEN
        [exc |-> OK, status_id |-> old_status.id]
    ELSE IF data.status_id \notin DOMAIN db.statuses THEN
        [exc |-> "BusinessRuleViolationError", status_id |-> NULL]
    ELSE IF ~user_can_change_status(user, old_status, StatusObj(db, data.status_id)) THEN
        [exc |-> "StatusChangeForbiddenError", status_id |-> NULL]
    ELSE [exc |-> OK, status_id |-> data.status_id]

\* Mutant of _resolve_new_status_for_update: the transition policy is not
\* consulted.
_resolve_new_status_for_update_NoPolicy(db, user, req, data) ==
    LET old_status == StatusObj(db, req.status_id) IN
    IF role_name(user) = ROLE_CLIENT THEN [exc |-> OK, status_id |-> old_status.id]
    ELSE IF data.status_id = NULL \/ data.status_id = old_status.id THEN
        [exc |-> OK, status_id |-> old_status.id]
    ELSE IF data.status_id \notin DOMAIN db.statuses THEN
        [exc |-> "BusinessRuleViolationError", status_id |-> NULL]
    ELSE [exc |-> OK, status_id |-> data.status_id]

\* Returns [exc, status_id].
_resolve_new_status_for_update(db, user, req, data) ==
    LET old_status == StatusObj(db, req.status_id) IN
    IF role_name(user) = ROLE_CLIENT THEN [exc |-> OK, status_id |-> old_status.id]
    ELSE IF data.status_id = NULL \/ data.status_id = old_status.id THEN
        [exc |-> OK, status_id |-> old_status.id]
    ELSE IF data.status_id \notin DOMAIN db.statuses THEN
        [exc |-> "BusinessRuleViolationError", status_id |-> NULL]
    ELSE IF ~user_can_change_status(user, old_status, StatusObj(db, data.status_id)) THEN
        [exc |-> "StatusChangeForbiddenError", status_id |-> NULL]
    ELSE [exc |-> OK, status_id |-> data.status_id]

\* Mutant of _apply_completion_date: the submitted date is stored as it is,
\* also for a final status.
_apply_completion_date_Verbatim(req, new_status_is_final, data, today) ==
    [req EXCEPT !.completion_date = data.completion_date]

\* Mutant of _apply_completion_date: a completion date already stored is
\* kept when none is submitted.
_apply_completion_date_KeepStored(req, new_status_is_final, data, today) ==
    IF new_status_is_final
    THEN [req EXCEPT !.completion_date =
                         IF data.completion_date /= NULL THEN data.completion_date
                         ELSE IF @ /= NULL THEN @ ELSE today]
    ELSE [req EXCEPT !.completion_date = data.completion_date]

_apply_completion_date(req, new_status_is_final, data, today) ==
    IF new_status_is_final
    THEN [req EXCEPT !.completion_date =
                         IF data.completion_date /= NULL THEN data.completion_date ELSE today]
    ELSE [req EXCEPT !.completion_date = data.completion_date]

\* Mutant of _apply_due_date: the master class may set the due date too.
_apply_due_date_MasterClass(user, req, data) ==
    IF role_name(user) \in {ROLE_MANAGER, ROLE_OPERATOR, ROLE_QUALITY_MANAGER,
                            ROLE_MASTER, ROLE_SPECIALIST}
    THEN [req EXCEPT !.due_date = data.due_date]
    ELSE IF req.id = NULL THEN [req EXCEPT !.due_date = NULL]
    ELSE req

_apply_due_date(user, req, data) ==
    IF role_name(user) \in {ROLE_MANAGER, ROLE_OPERATOR, ROLE_QUALITY_MANAGER}
    THEN [req EXCEPT !.due_date = data.due_date]
    ELSE IF req.id = NULL THEN [req EXCEPT !.due_date = NULL]
    ELSE req

\* Mutant of _apply_repair_parts: every role writes the submitted text.
_apply_repair_parts_AnyRole(user, req, data) ==
    [req EXCEPT !.repair_parts = OrNone(Strip(OrEmpty(data.repair_parts)))]

_apply_repair_parts(user, req, data) ==
    IF role_name(user) \in {ROLE_MANAGER, ROLE_OPERATOR, ROLE_MASTER, ROLE_SPECIALIST}
    THEN [req EXCEPT !.repair_parts = OrNone(Strip(OrEmpty(data.repair_parts)))]
    ELSE IF req.id = NULL THEN [req EXCEPT !.repair_parts = NoText]
    ELSE req

\* Mutant of _apply_master: whoever may not assign a master clears the field
\* on update as on create.
_apply_master_ClearOnUpdate(user, req, data) ==
    IF user_can_assign_master(user)
    THEN [req EXCEPT !.master_id = IF Truthy(data.master_id) THEN data.master_id ELSE NULL]
    ELSE [req EXCEPT !.master_id = NULL]

_apply_master(user, req, data) ==
    IF user_can_assign_master(user)
    THEN [req EXCEPT !.master_id = IF Truthy(data.master_id) THEN data.master_id ELSE NULL]
    ELSE IF req.id = NULL THEN [req EXCEPT !.master_id = NULL]
    ELSE req

\* Mutant of _apply_client: a Client's submitted client id is taken when
\* there is one.
_apply_client_Submitted(user, req, data) ==
    IF role_name(user) = ROLE_CLIENT
    THEN [exc |-> OK,
          req |-> [req EXCEPT !.client_id =
                                  IF Truthy(data.client_id) THEN data.client_id ELSE user]]
    ELSE IF role_name(user) \in {ROLE_MANAGER, ROLE_OPERATOR}
    THEN IF ~Truthy(data.client_id)
         THEN [exc |-> "BusinessRuleViolationError", req |-> req]
         ELSE [exc |-> OK, req |-> [req EXCEPT !.client_id = data.client_id]]
    ELSE IF req.id = NULL
    THEN [exc |-> "BusinessRuleViolationError", req |-> req]
    ELSE [exc |-> OK, req |-> req]

\* Returns [exc, req].
_apply_client(user, req, data) ==
    IF role_name(user) = ROLE_CLIENT
    THEN [exc |-> OK, req |-> [req EXCEPT !.client_id = user]]
    ELSE IF role_name(user) \in {ROLE_MANAGER, ROLE_OPERATOR}
    THEN IF ~Truthy(data.client_id)
         THEN [exc |-> "BusinessRuleViolationError", req |-> req]
         ELSE [exc |-> OK, req |-> [req EXCEPT !.client_id = data.client_id]]
    ELSE IF req.id = NULL
    THEN [exc |-> "BusinessRuleViolationError", req |-> req]
    ELSE [exc |-> OK, req |-> req]

\* The row of a request object (the object less its id).
RowOf(req) ==
    [f \in DOMAIN req \ {"id"} |-> req[f]]

\* The session after the object req was changed in place (a loaded object)
\* or added (a new one, which gets the next id when it is flushed).
WithRequest(db, req) ==
    IF req.id /= NULL
    THEN [db EXCEPT !.tickets[req.id] = RowOf(req)]
    ELSE [db EXCEPT !.tickets = @ @@ ((db.seq.ticket + 1) :> RowOf(req)),
                    !.seq.ticket = @ + 1]

\* usecases.py:285-299: the assignments to req, in the code's order.
\* An object already loaded (req.id set) is changed in the session as the
\* assignments run, so an error of _apply_client leaves them in the session.
SaveFields(db, user, req, data, new_status_id, ids, today) ==
    LET r1 == [req EXCEPT !.start_date = data.start_date,
                          !.equipment_model_id = ids.equipment_model_id,
                          !.issue_type_id = ids.issue_type_id,
                          !.problem_description = data.problem_description,
                          !.status_id = new_status_id]
        r2 == _apply_completion_date(r1, db.statuses[new_status_id].is_final, data, today)
        r3 == _apply_due_date(user, r2, data)
        r4 == _apply_repair_parts(user, r3, data)
        r5 == _apply_master(user, r4, data)
        c  == _apply_client(user, r5, data)
    IN  IF c.exc /= OK
        THEN Result(c.exc, IF req.id /= NULL THEN WithRequest(db, c.req) ELSE db, NULL)
        ELSE Result(OK, WithRequest(db, c.req),
                    IF req.id /= NULL THEN req.id ELSE db.seq.ticket + 1)

save_request(db, user, data, today) ==
    LET ids == _resolve_equipment_and_issue(db, data)
        is_edit == data.id /= NULL
    IN  IF ids.exc /= OK THEN Result(ids.exc, ids.db, NULL)
        ELSE IF is_edit THEN
            IF data.id \notin DOMAIN ids.db.tickets
            THEN Result("RequestNotFoundError", ids.db, NULL)
            ELSE
                LET row == ids.db.tickets[data.id]
                    req == [f \in DOMAIN NewRequest |->
                               IF f = "id" THEN data.id ELSE row[f]]
                    st  == _resolve_new_status_for_update(ids.db, user, req, data)
                IN  IF ~user_can_edit_request(user, req,
                                              ids.db.statuses[req.status_id].is_final)
                    THEN Result("PermissionDeniedError", ids.db, NULL)
                    ELSE IF st.exc /= OK THEN Result(st.exc, ids.db, NULL)
                    ELSE SaveFields(ids.db, user, req, data, st.status_id, ids, today)
        ELSE
            LET st == _resolve_new_status_for_create(ids.db, user, data) IN
            IF ~user_can_create_request(user)
            THEN Result("PermissionDeniedError", ids.db, NULL)
            ELSE IF st.exc /= OK THEN Result(st.exc, ids.db, NULL)
            ELSE SaveFields(ids.db, user, NewRequest, data, st.status_id, ids, today)

-----------------------------------------------------------------------------
(* usecases.py: delete_request, add_comment *)

\* db.delete(req) with the relationships' cascade="all, delete-orphan"
\* (models.py:138-148): the ticket's comments and help requests go with it.
\* Mutant of DeleteCascade: the help requests are not part of the cascade.
DeleteCascade_CommentsOnly(db, request_id) ==
    [db EXCEPT
        !.tickets  = [i \in DOMAIN @ \ {request_id} |-> @[i]],
        !.comments = [i \in {j \in DOMAIN @ : @[j].request_id /= request_id} |-> @[i]]]

DeleteCascade(db, request_id) ==
    [db EXCEPT
        !.tickets  = [i \in DOMAIN @ \ {request_id} |-> @[i]],
        !.comments = [i \in {j \in DOMAIN @ : @[j].request_id /= request_id} |-> @[i]],
        !.helps    = [i \in {j \in DOMAIN @ : @[j].request_id /= request_id} |-> @[i]]]

\* Mutant of delete_request: the permission check is missing.
delete_request_Unchecked(db, user, request_id) ==
    IF request_id \notin DOMAIN db.tickets
    THEN Result("RequestNotFoundError", db, NULL)
    ELSE Result(OK, DeleteCascade(db, request_id), NULL)

delete_request(db, user, request_id) ==
    IF request_id \notin DOMAIN db.tickets
    THEN Result("RequestNotFoundError", db, NULL)
    ELSE IF ~user_can_delete_request(user)
    THEN Result("PermissionDeniedError", db, NULL)
    ELSE Result(OK, DeleteCascade(db, request_id), NULL)

add_comment(db, user, request_id, message) ==
    LET msg_clean == Strip(message)
        new_id == db.seq.comment + 1
    IN  IF request_id \notin DOMAIN db.tickets
        THEN Result("RequestNotFoundError", db, NULL)
        ELSE IF ~user_can_add_comment(user, db.tickets[request_id])
        THEN Result("PermissionDeniedError", db, NULL)
        ELSE IF msg_clean = <<>>
        THEN Result("BusinessRuleViolationError", db, NULL)
        ELSE Result(OK,
                    [db EXCEPT !.comments = @ @@ (new_id :> [request_id |-> request_id,
                                                             master_id |-> user,
                                                             message |-> msg_clean]),
                               !.seq.comment = new_id],
                    new_id)

-----------------------------------------------------------------------------
(* usecases.py: the help-request (escalation) workflow *)

\* Mutant of OpenHelpExists: the status filter of the query is dropped from
\* the decision (the query result is never looked at).
OpenHelpExists_Unchecked(db, request_id) == FALSE

\* The open_exists query of create_help_request (usecases.py:361-366).
OpenHelpExists(db, request_id) ==
    \E h \in DOMAIN db.helps :
        /\ db.helps[h].request_id = request_id
        /\ db.helps[h].status = "open"

\* models.HelpRequest(...) as create_help_request builds it (usecases.py:374-380).
NewHelpRequest(request_id, user, message, proposed_due_date) ==
    [request_id |-> request_id, created_by_master_id |-> user,
     quality_manager_id |-> NULL, assigned_master_id |-> NULL,
     status |-> "open", message |-> message, resolution_note |-> NoText,
     proposed_due_date |-> proposed_due_date, closed_at |-> NULL]

\* Mutant of create_help_request: the blank-message check runs before the
\* open-exists check.
create_help_request_MessageFirst(db, user, data) ==
    LET msg_clean == Strip(data.message)
        new_id == db.seq.help + 1
    IN  IF ~user_can_create_help_request(user)
        THEN Result("PermissionDeniedError", db, NULL)
        ELSE IF data.request_id \notin DOMAIN db.tickets
        THEN Result("RequestNotFoundError", db, NULL)
        ELSE IF db.tickets[data.request_id].master_id /= user
        THEN Result("PermissionDeniedError", db, NULL)
        ELSE IF msg_clean = <<>>
        THEN Result("BusinessRuleViolationError", db, NULL)
        ELSE IF OpenHelpExists(db, data.request_id)
        THEN Result("HelpRequestAlreadyOpenError", db, NULL)
        ELSE Result(OK,
                    [db EXCEPT !.helps = @ @@ (new_id :>
                                   NewHelpRequest(data.request_id, user, msg_clean,
                                                  data.proposed_due_date)),
                               !.seq.help = new_id],
                    new_id)

\* Mutant of create_help_request: the ownership check (master_id against the
\* actor) is missing.
create_help_request_AnyTicket(db, user, data) ==
    LET msg_clean == Strip(data.message)
        new_id == db.seq.help + 1
    IN  IF ~user_can_create_help_request(user)
        THEN Result("PermissionDeniedError", db, NULL)
        ELSE IF data.request_id \notin DOMAIN db.tickets
        THEN Result("RequestNotFoundError", db, NULL)
        ELSE IF OpenHelpExists(db, data.request_id)
        THEN Result("HelpRequestAlreadyOpenError", db, NULL)
        ELSE IF msg_clean = <<>>
        THEN Result("BusinessRuleViolationError", db, NULL)
        ELSE Result(OK,
                    [db EXCEPT !.helps = @ @@ (new_id :>
                                   NewHelpRequest(data.request_id, user, msg_clean,
                                                  data.proposed_due_date)),
                               !.seq.help = new_id],
                    new_id)

\* data is a HelpRequestCreateInput record.
create_help_request(db, user, data) ==
    LET msg_clean == Strip(data.message)
        new_id == db.seq.help + 1
    IN  IF ~user_can_create_help_request(user)
        THEN Result("PermissionDeniedError", db, NULL)
        ELSE IF data.request_id \notin DOMAIN db.tickets
        THEN Result("RequestNotFoundError", db, NULL)
        ELSE IF db.tickets[data.request_id].master_id /= user
        THEN Result("PermissionDeniedError", db, NULL)
        ELSE IF OpenHelpExists(db, data.request_id)
        THEN Result("HelpRequestAlreadyOpenError", db, NULL)
        ELSE IF msg_clean = <<>>
        THEN Result("BusinessRuleViolationError", db, NULL)
        ELSE Result(OK,
                    [db EXCEPT !.helps = @ @@ (new_id :>
                                   NewHelpRequest(data.request_id, user, msg_clean,
                                                  data.proposed_due_date)),
                               !.seq.help = new_id],
                    new_id)

\* Mutant of CloseOpenHelp: the reassigned user only has to exist (its role
\* is not checked).
CloseOpenHelp_AnyUser(db, user, data, now) ==
    LET help_req == db.helps[data.help_id]
        req == db.tickets[help_req.request_id]
        given == data.assigned_master_id /= NULL
        master_ok == data.assigned_master_id \in UserIds
        req2 == [req EXCEPT
                    !.master_id = IF given THEN data.assigned_master_id ELSE @,
                    !.due_date  = IF data.new_due_date /= NULL THEN data.new_due_date ELSE @]
        help2 == [help_req EXCEPT
                    !.assigned_master_id = IF given THEN data.assigned_master_id ELSE @,
                    !.resolution_note = OrNone(Strip(data.resolution_note)),
                    !.quality_manager_id = user,
                    !.status = "closed",
                    !.closed_at = now]
    IN  IF data.new_due_date /= NULL /\ data.new_due_date < req.start_date
        THEN Result("BusinessRuleViolationError", db, NULL)
        ELSE IF given /\ ~master_ok
        THEN Result("BusinessRuleViolationError", db, NULL)
        ELSE Result(OK,
                    [db EXCEPT !.tickets[help_req.request_id] = req2,
                               !.helps[data.help_id] = help2],
                    data.help_id)

\* Mutant of CloseOpenHelp: the reassignment is written to the help request's
\* mirror but not to the ticket.
CloseOpenHelp_MirrorOnly(db, user, data, now) ==
    LET help_req == db.helps[data.help_id]
        req == db.tickets[help_req.request_id]
        given == data.assigned_master_id /= NULL
        master_ok == /\ data.assigned_master_id \in UserIds
                     /\ is_master_role(role_name(data.assigned_master_id))
        req2 == [req EXCEPT
                    !.master_id = @,
                    !.due_date  = IF data.new_due_date /= NULL THEN data.new_due_date ELSE @]
        help2 == [help_req EXCEPT
                    !.assigned_master_id = IF given THEN data.assigned_master_id ELSE @,
                    !.resolution_note = OrNone(Strip(data.resolution_note)),
                    !.quality_manager_id = user,
                    !.status = "closed",
                    !.closed_at = now]
    IN  IF data.new_due_date /= NULL /\ data.new_due_date < req.start_date
        THEN Result("BusinessRuleViolationError", db, NULL)
        ELSE IF given /\ ~master_ok
        THEN Result("BusinessRuleViolationError", db, NULL)
        ELSE Result(OK,
                    [db EXCEPT !.tickets[help_req.request_id] = req2,
                               !.helps[data.help_id] = help2],
                    data.help_id)

\* Mutant of CloseOpenHelp: closed_at is not written.
CloseOpenHelp_NoClosedAt(db, user, data, now) ==
    LET help_req == db.helps[data.help_id]
        req == db.tickets[help_req.request_id]
        given == data.assigned_master_id /= NULL
        master_ok == /\ data.assigned_master_id \in UserIds
                     /\ is_master_role(role_name(data.assigned_master_id))
        req2 == [req EXCEPT
                    !.master_id = IF given THEN data.assigned_master_id ELSE @,
                    !.due_date  = IF data.new_due_date /= NULL THEN data.new_due_date ELSE @]
        help2 == [help_req EXCEPT
                    !.assigned_master_id = IF given THEN data.assigned_master_id ELSE @,
                    !.resolution_note = OrNone(Strip(data.resolution_note)),
                    !.quality_manager_id = user,
                    !.status = "closed"]
    IN  IF data.new_due_date /= NULL /\ data.new_due_date < req.start_date
        THEN Result("BusinessRuleViolationError", db, NULL)
        ELSE IF given /\ ~master_ok
        THEN Result("BusinessRuleViolationError", db, NULL)
        ELSE Result(OK,
                    [db EXCEPT !.tickets[help_req.request_id] = req2,
                               !.helps[data.help_id] = help2],
                    data.help_id)

\* usecases.py:405-427: the checks and writes of a close once the help
\* request (open) and its ticket are loaded.  now is datetime.now().
CloseOpenHelp(db, user, data, now) ==
    LET help_req == db.helps[data.help_id]
        req == db.tickets[help_req.request_id]
        given == data.assigned_master_id /= NULL
        master_ok == /\ data.assigned_master_id \in UserIds
                     /\ is_master_role(role_name(data.assigned_master_id))
        req2 == [req EXCEPT
                    !.master_id = IF given THEN data.assigned_master_id ELSE @,
                    !.due_date  = IF data.new_due_date /= NULL THEN data.new_due_date ELSE @]
        help2 == [help_req EXCEPT
                    !.assigned_master_id = IF given THEN data.assigned_master_id ELSE @,
                    !.resolution_note = OrNone(Strip(data.resolution_note)),
                    !.quality_manager_id = user,
                    !.status = "closed",
                    !.closed_at = now]
    IN  IF data.new_due_date /= NULL /\ data.new_due_date < req.start_date
        THEN Result("BusinessRuleViolationError", db, NULL)
        ELSE IF given /\ ~master_ok
        THEN Result("BusinessRuleViolationError", db, NULL)
        ELSE Result(OK,
                    [db EXCEPT !.tickets[help_req.request_id] = req2,
                               !.helps[data.help_id] = help2],
                    data.help_id)

\* Mutant of close_help_request: the status check (already closed) is missing.
close_help_request_Reclose(db, user, data, now) ==
    IF ~user_can_handle_help_request(user)
    THEN Result("PermissionDeniedError", db, NULL)
    ELSE IF data.help_id \notin DOMAIN db.helps
    THEN Result("HelpRequestNotFoundError", db, NULL)
    ELSE IF db.helps[data.help_id].request_id \notin DOMAIN db.tickets
    THEN Result("RequestNotFoundError", db, NULL)
    ELSE CloseOpenHelp(db, user, data, now)

\* Mutant of close_help_request: a help request of a ticket that has no
\* master any more cannot be closed.
close_help_request_NeedsMaster(db, user, data, now) ==
    IF ~user_can_handle_help_request(user)
    THEN Result("PermissionDeniedError", db, NULL)
    ELSE IF data.help_id \notin DOMAIN db.helps
    THEN Result("HelpRequestNotFoundError", db, NULL)
    ELSE IF db.helps[data.help_id].status /= "open"
    THEN Result("BusinessRuleViolationError", db, NULL)
    ELSE IF db.helps[data.help_id].request_id \notin DOMAIN db.tickets
    THEN Result("RequestNotFoundError", db, NULL)
    ELSE IF db.tickets[db.helps[data.help_id].request_id].master_id = NULL
    THEN Result("BusinessRuleViolationError", db, NULL)
    ELSE CloseOpenHelp(db, user, data, now)

\* data is a HelpRequestCloseInput record.
close_help_request(db, user, data, now) ==
    IF ~user_can_handle_help_request(user)
    THEN Result("PermissionDeniedError", db, NULL)
    ELSE IF data.help_id \notin DOMAIN db.helps
    THEN Result("HelpRequestNotFoundError", db, NULL)
    ELSE IF db.helps[data.help_id].status /= "open"
    THEN Result("BusinessRuleViolationError", db, NULL)
    ELSE IF db.helps[data.help_id].request_id \notin DOMAIN db.tickets
    THEN Result("RequestNotFoundError", db, NULL)
    ELSE CloseOpenHelp(db, user, data, now)

-----------------------------------------------------------------------------
(* The persistence layer at commit: the foreign keys of models.py. *)

IntegrityOk(db) ==
    /\ \A t \in DOMAIN db.tickets :
          /\ db.tickets[t].status_id \in DOMAIN db.statuses
          /\ db.tickets[t].equipment_model_id \in DOMAIN db.equipment_models
          /\ db.tickets[t].issue_type_id \in DOMAIN db.issue_types
          /\ db.tickets[t].client_id \in UserIds
          /\ db.tickets[t].master_id \in UserIds \cup {NULL}
    /\ \A h \in DOMAIN db.helps : db.helps[h].request_id \in DOMAIN db.tickets
    /\ \A c \in DOMAIN db.comments : db.comments[c].request_id \in DOMAIN db.tickets

\* Mutant of Handle: the rows get-or-create flushed stay when the use case
\* raises afterwards (a flush that would commit).
Handle_FlushCommits(op, r) ==
    \E res \in {r} :
      \E commit \in {res.exc = OK /\ IntegrityOk(res.db)} :
        /\ tickets' = IF commit THEN res.db.tickets ELSE tickets
        /\ helps' = IF commit THEN res.db.helps ELSE helps
        /\ comments' = IF commit THEN res.db.comments ELSE comments
        /\ equipment_models' = res.db.equipment_models
        /\ issue_types' = res.db.issue_types
        /\ seq' = IF commit THEN res.db.seq
                  ELSE [seq EXCEPT !.equipment_model = res.db.seq.equipment_model,
                                   !.issue_type = res.db.seq.issue_type]
        /\ last' = [op |-> op,
                    exc |-> IF res.exc = OK /\ ~commit THEN "SQLAlchemyError" ELSE res.exc]
        /\ UNCHANGED <<statuses, txn, probe>>

\* The try block of a handler of main.py around a use-case call that
\* returned r: db.commit() when the use case raised nothing, db.rollback()
\* when it raised or when the commit fails on a constraint.
Handle(op, r) ==
    \E res \in {r} :
      \E commit \in {res.exc = OK /\ IntegrityOk(res.db)} :
        /\ tickets' = IF commit THEN res.db.tickets ELSE tickets
        /\ helps' = IF commit THEN res.db.helps ELSE helps
        /\ comments' = IF commit THEN res.db.comments ELSE comments
        /\ equipment_models' = IF commit THEN res.db.equipment_models ELSE equipment_models
        /\ issue_types' = IF commit THEN res.db.issue_types ELSE issue_types
        /\ seq' = IF commit THEN res.db.seq ELSE seq
        /\ last' = [op |-> op,
                    exc |-> IF res.exc = OK /\ ~commit THEN "SQLAlchemyError" ELSE res.exc]
        /\ UNCHANGED <<statuses, txn, probe>>

\* main.py:557-559
SaveRequest(user, data, today) ==
    Handle("save_request", save_request(Db, user, data, today))

\* main.py:602-604
DeleteRequest(user, request_id) ==
    Handle("delete_request", delete_request(Db, user, request_id))

\* main.py:646-653
AddComment(user, request_id, message) ==
    Handle("add_comment", add_comment(Db, user, request_id, message))

\* main.py:791-801
CreateHelpRequest(user, data) ==
    Handle("create_help_request", create_help_request(Db, user, data))

\* main.py:1003-1014
CloseHelpRequest(user, data, now) ==
    Handle("close_help_request", close_help_request(Db, user, data, now))

\* The model's bound on the rows ever inserted, as a guard on a step.
WithinBounds(max_tickets, max_helps, max_comments) ==
    /\ seq'.ticket <= max_tickets
    /\ seq'.help <= max_helps
    /\ seq'.comment <= max_comments

-----------------------------------------------------------------------------
(* The inputs the calls are drawn from. *)

TicketIds == 1..MaxTickets
HelpIds == 1..MaxHelps

\* A user id and a status id that are in no table.
NoSuchUser == Cardinality(UserIds) + 1
NoSuchStatus == Cardinality(DOMAIN StatusTable) + 1

Blank == <<" ">>
Padded == <<" ", "a", " ">>
Texts == {Blank, Padded}

\* RequestInput records with the fields the help workflow depends on
\* varying: ticket id, status (absent, non-final, final) and master.
SaveInputs ==
    [id : {NULL} \cup TicketIds,
     start_date : {MaxDate},
     equipment_type_id : {1},
     equipment_model_name : {Padded},
     issue_type_id : {NULL},
     problem_description : {Padded},
     status_id : {NULL, 1, 3},
     completion_date : {NULL},
     due_date : {NULL},
     repair_parts : {NoText},
     master_id : {NULL, 4, 5, 6},
     client_id : {6}]

HelpCreateInputs ==
    [request_id : TicketIds, message : Texts, proposed_due_date : {NULL}]

HelpCloseInputs ==
    [help_id : HelpIds,
     resolution_note : {Padded},
     assigned_master_id : {NULL, 5},
     new_due_date : {NULL}]

-----------------------------------------------------------------------------
(* The engine, one call at a time, from an empty store. *)

EmptyTable == <<>>

\* A process that is not inside a create_help_request call.
Idle == [pc |-> "idle", user |-> NULL, request_id |-> NULL, message |-> <<>>,
         proposed_due_date |-> NULL]

\* Status objects as rbac takes them: [id, is_final].
StatusObjs == [id : 1..MaxStatusId, is_final : BOOLEAN]

NoProbe == [user |-> NULL, old_status |-> [id |-> 1, is_final |-> FALSE],
            new_status |-> [id |-> 1, is_final |-> FALSE],
            done |-> FALSE, result |-> FALSE]

Init ==
    /\ statuses = StatusTable
    /\ tickets = EmptyTable
    /\ helps = EmptyTable
    /\ comments = EmptyTable
    /\ equipment_models = EmptyTable
    /\ issue_types = EmptyTable
    /\ seq = [ticket |-> 0, help |-> 0, comment |-> 0,
              equipment_model |-> 0, issue_type |-> 0]
    /\ last = [op |-> "init", exc |-> OK]
    /\ txn = [p \in 1..NumTxns |-> Idle]
    /\ probe = NoProbe

Bounded == WithinBounds(MaxTickets, MaxHelps, MaxComments)

Save ==
    \E user \in UserIds, data \in SaveInputs :
        SaveRequest(user, data, MaxDate) /\ Bounded

Delete ==
    \E user \in UserIds, request_id \in TicketIds :
        DeleteRequest(user, request_id) /\ Bounded

Comment ==
    \E user \in UserIds, request_id \in TicketIds, message \in Texts :
        AddComment(user, request_id, message) /\ Bounded

CreateHelp ==
    \E user \in UserIds, data \in HelpCreateInputs :
        CreateHelpRequest(user, data) /\ Bounded

CloseHelp ==
    \E user \in UserIds, data \in HelpCloseInputs :
        CloseHelpRequest(user, data, MaxDate) /\ Bounded

Next == Save \/ Delete \/ Comment \/ CreateHelp \/ CloseHelp

Spec == Init /\ [][Next]_vars

-----------------------------------------------------------------------------
(* Vocabulary of the properties. *)

MasterClass == {ROLE_MASTER, ROLE_SPECIALIST}
HandlerRoles == {ROLE_QUALITY_MANAGER, ROLE_MANAGER}

\* The help requests of ticket t that are open / closed.
OpenHelpsOf(t) == {h \in DOMAIN helps : helps[h].request_id = t /\ helps[h].status = "open"}
ClosedHelpsOf(t) == {h \in DOMAIN helps : helps[h].request_id = t /\ helps[h].status = "closed"}

\* User u is the assigned master of ticket t: a master-class user whose id
\* is the ticket's master_id.
IsAssignedMaster(u, t) == users[u] \in MasterClass /\ tickets[t].master_id = u

\* The store a handler leaves behind for a use-case result r: r.db once
\* committed, the store before the call once rolled back.
Committed(r) == IF r.exc = OK /\ IntegrityOk(r.db) THEN r.db ELSE Db

-----------------------------------------------------------------------------
\* C1: in every state reachable by save, delete, add_comment,
\* create_help_request and close_help_request calls run one at a time, no
\* ticket has more than one help request with status open.
C1_AtMostOneOpenHelp ==
    \A h1, h2 \in DOMAIN helps :
        (/\ helps[h1].request_id = helps[h2].request_id
         /\ helps[h1].status = "open"
         /\ helps[h2].status = "open") => h1 = h2

\* A ticket whose first help request was closed and which has a second,
\* open one: the check of create_help_request has let a later request in.
C1_Witness ==
    \E h1, h2 \in DOMAIN helps :
        /\ helps[h1].request_id = helps[h2].request_id
        /\ helps[h1].status = "closed"
        /\ helps[h2].status = "open"

-----------------------------------------------------------------------------
\* C3: for every ticket, while a help request for it is open a
\* create_help_request by its assigned master fails with
\* HelpRequestAlreadyOpen and adds no help request; once that help request
\* has been closed, a create_help_request with a non-empty message by the
\* then-current assigned master succeeds and yields a new open help request.
C3_EscalationExclusivity ==
    \A t \in DOMAIN tickets, u \in UserIds, data \in HelpCreateInputs :
        (data.request_id = t /\ IsAssignedMaster(u, t)) =>
            LET r == create_help_request(Db, u, data)
                after == Committed(r).helps
            IN  /\ OpenHelpsOf(t) /= {} =>
                      /\ r.exc = "HelpRequestAlreadyOpenError"
                      /\ after = helps
                /\ (OpenHelpsOf(t) = {} /\ ClosedHelpsOf(t) /= {} /\ data.message = Padded) =>
                      /\ r.exc = OK
                      /\ r.id \notin DOMAIN helps
                      /\ DOMAIN after = DOMAIN helps \cup {r.id}
                      /\ after[r.id].status = "open"
                      /\ after[r.id].request_id = t

\* A second help request was opened after the first was closed, and a
\* further attempt has just been refused as a duplicate.
C3_Witness ==
    /\ last = [op |-> "create_help_request", exc |-> "HelpRequestAlreadyOpenError"]
    /\ \E t \in DOMAIN tickets : OpenHelpsOf(t) /= {} /\ ClosedHelpsOf(t) /= {}

-----------------------------------------------------------------------------
\* C4: create_help_request succeeds only for an actor of a master-class role
\* whose id is the ticket's master_id; for every other actor on an existing
\* ticket it fails with PermissionDenied and creates nothing; on success the
\* new help request is open, belongs to the ticket and records the actor as
\* its creator.
C4_CreateHelpPermission ==
    \A u \in UserIds, data \in HelpCreateInputs :
        LET r == create_help_request(Db, u, data)
            t == data.request_id
            after == Committed(r).helps
        IN  /\ r.exc = OK =>
                  /\ t \in DOMAIN tickets
                  /\ users[u] \in MasterClass
                  /\ tickets[t].master_id = u
                  /\ r.id \notin DOMAIN helps
                  /\ DOMAIN after = DOMAIN helps \cup {r.id}
                  /\ \A h \in DOMAIN helps : after[h] = helps[h]
                  /\ after[r.id].status = "open"
                  /\ after[r.id].request_id = t
                  /\ after[r.id].created_by_master_id = u
            /\ (t \in DOMAIN tickets /\ ~(users[u] \in MasterClass /\ tickets[t].master_id = u)) =>
                  /\ r.exc = "PermissionDeniedError"
                  /\ after = helps

\* A call on an existing ticket that is assigned to a master-class user was
\* refused, and no help request exists.
C4_Witness ==
    /\ last = [op |-> "create_help_request", exc |-> "PermissionDeniedError"]
    /\ helps = EmptyTable
    /\ \E t \in DOMAIN tickets :
          tickets[t].master_id \in UserIds /\ users[tickets[t].master_id] \in MasterClass

-----------------------------------------------------------------------------
\* A step leaves every closed help request as it is, or removes it by the
\* cascade of a successful delete of its ticket.
ClosedStaysClosed ==
    \A h \in DOMAIN helps :
        helps[h].status = "closed" =>
            IF h \in DOMAIN helps'
            THEN helps'[h] = helps[h]
            ELSE /\ last' = [op |-> "delete_request", exc |-> OK]
                 /\ helps[h].request_id \notin DOMAIN tickets'

\* C5 as stated: every close_help_request call on a help request that is not
\* open fails with BusinessRuleViolation, and a closed help request never
\* changes again (it can only go with its ticket).
C5_Original ==
    /\ [](\A h \in DOMAIN helps, u \in UserIds, data \in HelpCloseInputs :
            (helps[h].status /= "open" /\ data.help_id = h) =>
                close_help_request(Db, u, data, MaxDate).exc = "BusinessRuleViolationError")
    /\ [][ClosedStaysClosed]_vars

\* C5, amended: a close_help_request call on a help request that is not open
\* fails - with BusinessRuleViolation when the actor is a QualityManager or
\* Manager, with PermissionDenied for every other actor - and a closed help
\* request never changes again (it can only go with its ticket).
C5_ClosedIsTerminal ==
    /\ [](\A h \in DOMAIN helps, u \in UserIds, data \in HelpCloseInputs :
            (helps[h].status /= "open" /\ data.help_id = h) =>
                close_help_request(Db, u, data, MaxDate).exc =
                    IF users[u] \in HandlerRoles
                    THEN "BusinessRuleViolationError" ELSE "PermissionDeniedError")
    /\ [][ClosedStaysClosed]_vars

\* A close of a closed help request has just been refused.
C5_Witness ==
    /\ last = [op |-> "close_help_request", exc |-> "BusinessRuleViolationError"]
    /\ \E h \in DOMAIN helps : helps[h].status = "closed"

-----------------------------------------------------------------------------
\* C6: close_help_request succeeds only for a QualityManager or Manager; for
\* every other role it fails with PermissionDenied and neither the help
\* request nor its ticket changes.
C6_CloseHelpPermission ==
    \A u \in UserIds, data \in HelpCloseInputs :
        LET r == close_help_request(Db, u, data, MaxDate) IN
        /\ r.exc = OK => users[u] \in HandlerRoles
        /\ users[u] \notin HandlerRoles =>
              /\ r.exc = "PermissionDeniedError"
              /\ Committed(r).helps = helps
              /\ Committed(r).tickets = tickets

\* A close of an open help request has just been refused for lack of the
\* capability, and the help request is still open.
C6_Witness ==
    /\ last = [op |-> "close_help_request", exc |-> "PermissionDeniedError"]
    /\ \E h \in DOMAIN helps : helps[h].status = "open"

-----------------------------------------------------------------------------
(* The close of a help request under every input: one ticket, created and  *)
(* edited by the Manager, one help request by its master, and every actor  *)
(* closing it with every combination of note, reassignment and due date.   *)

CloseSaveInputs ==
    [id : {NULL} \cup TicketIds,
     start_date : Dates,
     equipment_type_id : {1},
     equipment_model_name : {Padded},
     issue_type_id : {NULL},
     problem_description : {Padded},
     status_id : {1, 3},
     completion_date : {NULL},
     due_date : {NULL, MaxDate},
     repair_parts : {NoText},
     master_id : {4},
     client_id : {6}]

CloseCreateInputs ==
    [request_id : TicketIds, message : {Padded}, proposed_due_date : {NULL}]

CloseInputs ==
    [help_id : 1..MaxHelpsClose,
     resolution_note : Texts,
     assigned_master_id : {NULL, 4, 5, 6, NoSuchUser},
     new_due_date : {NULL} \cup Dates]

BoundedClose == WithinBounds(MaxTickets, MaxHelpsClose, MaxComments)

SaveForClose ==
    \E data \in CloseSaveInputs : SaveRequest(1, data, MaxDate) /\ BoundedClose

CreateHelpForClose ==
    \E data \in CloseCreateInputs : CreateHelpRequest(4, data) /\ BoundedClose

CloseHelpAnyInput ==
    \E user \in UserIds, data \in CloseInputs :
        CloseHelpRequest(user, data, MaxDate) /\ BoundedClose

NextClose == SaveForClose \/ CreateHelpForClose \/ CloseHelpAnyInput

SpecClose == Init /\ [][NextClose]_vars

\* str.strip() of the notes of Texts, written out.
TrimmedOrNull(note) == IF note = Padded THEN << <<"a">> >> ELSE NoText

-----------------------------------------------------------------------------
\* C7: after a successful close_help_request on an open help request H of
\* ticket T, H is closed, its closed_at is set, its quality_manager_id is the
\* actor and its resolution_note is the trimmed note, or null when blank; a
\* given assigned_master_id is T's master_id and H's assigned_master_id,
\* otherwise T's master_id is unchanged; a given new_due_date is T's due_date,
\* otherwise T's due_date is unchanged.
C7_CloseEffects ==
    \A u \in UserIds, data \in CloseInputs :
        LET r == close_help_request(Db, u, data, MaxDate)
            h == data.help_id
        IN  (r.exc = OK /\ h \in DOMAIN helps /\ helps[h].status = "open") =>
                LET t == helps[h].request_id
                    H == Committed(r).helps[h]
                    T == Committed(r).tickets[t]
                IN  /\ H.status = "closed"
                    /\ H.closed_at /= NULL
                    /\ H.quality_manager_id = u
                    /\ H.resolution_note = TrimmedOrNull(data.resolution_note)
                    /\ IF data.assigned_master_id /= NULL
                       THEN /\ T.master_id = data.assigned_master_id
                            /\ H.assigned_master_id = data.assigned_master_id
                       ELSE T.master_id = tickets[t].master_id
                    /\ IF data.new_due_date /= NULL
                       THEN T.due_date = data.new_due_date
                       ELSE T.due_date = tickets[t].due_date

\* The end-to-end scenario: the help request of master 4 was just closed
\* with a note, the ticket reassigned to user 5 and given a new due date.
C7_Witness ==
    /\ last = [op |-> "close_help_request", exc |-> OK]
    /\ \E h \in DOMAIN helps :
          /\ helps[h].status = "closed"
          /\ helps[h].created_by_master_id = 4
          /\ helps[h].assigned_master_id = 5
          /\ helps[h].resolution_note = << <<"a">> >>
          /\ tickets[helps[h].request_id].master_id = 5
          /\ tickets[helps[h].request_id].due_date = MaxDate

-----------------------------------------------------------------------------
\* C8: a close_help_request call (by an actor who may handle, on an open help
\* request) that fails validation - new_due_date earlier than the ticket's
\* start date, or assigned_master_id naming a user that does not exist or is
\* not master-class - raises BusinessRuleViolation and changes nothing of the
\* ticket or the help request, also when the other argument is valid.
C8_CloseValidation ==
    \A u \in UserIds, data \in CloseInputs :
        LET r == close_help_request(Db, u, data, MaxDate)
            h == data.help_id
        IN  (users[u] \in HandlerRoles /\ h \in DOMAIN helps /\ helps[h].status = "open") =>
                LET t == helps[h].request_id
                    bad_due == /\ data.new_due_date /= NULL
                               /\ data.new_due_date < tickets[t].start_date
                    bad_master == /\ data.assigned_master_id /= NULL
                                  /\ \/ data.assigned_master_id \notin UserIds
                                     \/ users[data.assigned_master_id] \notin MasterClass
                IN  (bad_due \/ bad_master) =>
                        /\ r.exc = "BusinessRuleViolationError"
                        /\ r.db.tickets = tickets
                        /\ r.db.helps = helps
                        /\ Committed(r).tickets = tickets
                        /\ Committed(r).helps = helps

\* A close has just been refused by validation: the only help request is
\* still open, on a ticket that starts after the earliest date.
C8_Witness ==
    /\ last = [op |-> "close_help_request", exc |-> "BusinessRuleViolationError"]
    /\ \E h \in DOMAIN helps :
          /\ helps[h].status = "open"
          /\ tickets[helps[h].request_id].start_date > 1

-----------------------------------------------------------------------------
(* Saving and deleting tickets under every status and master input. *)

StatusSaveInputs ==
    [id : {NULL} \cup TicketIds,
     start_date : {MaxDate},
     equipment_type_id : {1},
     equipment_model_name : {Padded},
     issue_type_id : {NULL},
     problem_description : {Padded},
     status_id : {NULL, NoSuchStatus} \cup DOMAIN StatusTable,
     completion_date : {NULL, 1},
     due_date : {NULL},
     repair_parts : {NoText},
     master_id : {NULL, 4, 5, 6},
     client_id : {6}]

SaveAnyStatus ==
    \E user \in UserIds, data \in StatusSaveInputs :
        SaveRequest(user, data, MaxDate) /\ Bounded

NextSave == SaveAnyStatus \/ Delete

SpecSave == Init /\ [][NextSave]_vars

IsFinal(status_id) == StatusTable[status_id].is_final

-----------------------------------------------------------------------------
\* C9: once a ticket's status is final, no save by a Master, Specialist or
\* Client actor leaves it non-final (or removes the ticket); and a save by
\* the assigned master that asks for a non-final status on a final ticket
\* fails with StatusChangeForbidden and changes no field of the ticket.
C9_FinalLock ==
    \A t \in DOMAIN tickets, u \in UserIds, data \in StatusSaveInputs :
        (IsFinal(tickets[t].status_id) /\ users[u] \in MasterClass \cup {ROLE_CLIENT}) =>
            LET r == save_request(Db, u, data, MaxDate)
                after == Committed(r).tickets
            IN  /\ t \in DOMAIN after
                /\ IsFinal(after[t].status_id)
                /\ (/\ IsAssignedMaster(u, t)
                    /\ data.id = t
                    /\ data.status_id \in DOMAIN StatusTable
                    /\ ~IsFinal(data.status_id)) =>
                        /\ r.exc = "StatusChangeForbiddenError"
                        /\ after = tickets

\* The assigned master of a final ticket has just been refused a status
\* change.
C9_Witness ==
    /\ last = [op |-> "save_request", exc |-> "StatusChangeForbiddenError"]
    /\ \E t \in DOMAIN tickets :
          /\ IsFinal(tickets[t].status_id)
          /\ tickets[t].master_id \in {4, 5}

-----------------------------------------------------------------------------
(* rbac.user_can_change_status applied to every user and pair of status     *)
(* objects (as the tests of test_rbac.py build them: any id, any finality). *)

Unchanged_store ==
    UNCHANGED <<statuses, tickets, helps, comments, equipment_models,
                issue_types, seq, last, txn>>

InitRbac ==
    /\ statuses = StatusTable
    /\ tickets = EmptyTable
    /\ helps = EmptyTable
    /\ comments = EmptyTable
    /\ equipment_models = EmptyTable
    /\ issue_types = EmptyTable
    /\ seq = [ticket |-> 0, help |-> 0, comment |-> 0,
              equipment_model |-> 0, issue_type |-> 0]
    /\ last = [op |-> "init", exc |-> OK]
    /\ txn = [p \in 1..NumTxns |-> Idle]
    /\ probe \in [user : UserIds, old_status : StatusObjs, new_status : StatusObjs,
                  done : {FALSE}, result : {FALSE}]

CheckChangeStatus ==
    /\ ~probe.done
    /\ probe' = [probe EXCEPT
                    !.done = TRUE,
                    !.result = user_can_change_status(probe.user, probe.old_status,
                                                      probe.new_status)]
    /\ Unchanged_store

SpecRbac == InitRbac /\ [][CheckChangeStatus]_vars

-----------------------------------------------------------------------------
\* C10: for a Master or Specialist actor and every pair of statuses (old,
\* new), user_can_change_status is false exactly when old.id differs from
\* new.id, old.is_final is true and new.is_final is false.
C10_MasterStatusPolicy ==
    (probe.done /\ users[probe.user] \in MasterClass) =>
        (probe.result = FALSE <=>
            /\ probe.old_status.id /= probe.new_status.id
            /\ probe.old_status.is_final
            /\ ~probe.new_status.is_final)

\* test_master_cannot_reopen_final_request: the Master, from a final status
\* to a different, non-final one, was refused.
C10_Witness ==
    /\ probe.done
    /\ probe.user = 4
    /\ probe.old_status = [id |-> 1, is_final |-> TRUE]
    /\ probe.new_status = [id |-> 2, is_final |-> FALSE]
    /\ probe.result = FALSE

-----------------------------------------------------------------------------
(* Concurrent callers.  Each create_help_request call runs in its own       *)
(* session and transaction (main.py:54-59, database.py:13-14: the engine's  *)
(* default isolation, read committed).  Its reads - the ticket and the      *)
(* open_exists query, usecases.py:354-366 - see the rows committed so far;  *)
(* its INSERT is sent by db.commit() (main.py:801; the session does not     *)
(* autoflush), and table help_request (models.py:164-181) has no constraint *)
(* that could refuse it.  Other calls may commit between the two steps.     *)

\* The checks of create_help_request against the committed rows.  A call
\* that raises is over (rolled back); one that passes holds its new row.
BeginCreateHelp(p, user, data) ==
    /\ txn[p].pc = "idle"
    /\ \E r \in {create_help_request(Db, user, data)} :
          IF r.exc = OK
          THEN /\ txn' = [txn EXCEPT ![p] =
                              [pc |-> "checked", user |-> user,
                               request_id |-> data.request_id,
                               message |-> r.db.helps[r.id].message,
                               proposed_due_date |-> data.proposed_due_date]]
               /\ UNCHANGED last
          ELSE /\ last' = [op |-> "create_help_request", exc |-> r.exc]
               /\ UNCHANGED txn
    /\ UNCHANGED <<statuses, tickets, helps, comments, equipment_models,
                   issue_types, seq, probe>>

\* db.commit() of a call that passed its checks: the INSERT and the commit.
\* Only the foreign key to the ticket can refuse the row.
CommitCreateHelp(p) ==
    /\ txn[p].pc = "checked"
    /\ txn' = [txn EXCEPT ![p] = Idle]
    /\ IF txn[p].request_id \in DOMAIN tickets
       THEN /\ helps' = helps @@ ((seq.help + 1) :>
                            NewHelpRequest(txn[p].request_id, txn[p].user,
                                           txn[p].message, txn[p].proposed_due_date))
            /\ seq' = [seq EXCEPT !.help = @ + 1]
            /\ last' = [op |-> "create_help_request", exc |-> OK]
       ELSE /\ last' = [op |-> "create_help_request", exc |-> "SQLAlchemyError"]
            /\ UNCHANGED <<helps, seq>>
    /\ UNCHANGED <<statuses, tickets, comments, equipment_models, issue_types, probe>>

ConcSaveInputs ==
    [id : {NULL} \cup TicketIds,
     start_date : {MaxDate},
     equipment_type_id : {1},
     equipment_model_name : {Padded},
     issue_type_id : {NULL},
     problem_description : {Padded},
     status_id : {1},
     completion_date : {NULL},
     due_date : {NULL},
     repair_parts : {NoText},
     master_id : {4, 5},
     client_id : {6}]

SaveByManager ==
    \E data \in ConcSaveInputs : SaveRequest(1, data, MaxDate) /\ Bounded

DeleteByManager ==
    \E request_id \in TicketIds : DeleteRequest(1, request_id) /\ Bounded

CloseByQualityManager ==
    \E data \in HelpCloseInputs : CloseHelpRequest(3, data, MaxDate) /\ Bounded

BeginCreate ==
    \E p \in 1..NumTxns, user \in UserIds, data \in HelpCreateInputs :
        BeginCreateHelp(p, user, data)

CommitCreate ==
    \E p \in 1..NumTxns : CommitCreateHelp(p) /\ Bounded

NextConc ==
    SaveByManager \/ DeleteByManager \/ CloseByQualityManager \/ BeginCreate \/ CommitCreate

SpecConc == Init /\ [][NextConc]_vars

-----------------------------------------------------------------------------
\* C2: with create_help_request calls for the same ticket running
\* concurrently, each reading and inserting inside its own transaction, and
\* the help_request table as declared (no uniqueness constraint on open
\* rows), no ticket has more than one open help request in any state.
C2_AtMostOneOpenHelpConcurrent ==
    \A t \in DOMAIN tickets : Cardinality(OpenHelpsOf(t)) <= 1

-----------------------------------------------------------------------------
(* Vocabulary of the role policy. *)

StaffRoles == {ROLE_MANAGER, ROLE_OPERATOR, ROLE_QUALITY_MANAGER}
KnownRoles == StaffRoles \cup MasterClass \cup {ROLE_CLIENT}

\* The users with no resolvable role: no user at all (None), a user without
\* a role, a user whose role is none of the six.
NoRoleUsers == {u \in UserIds \cup {NULL} : role_name(u) \notin KnownRoles}

-----------------------------------------------------------------------------
\* C11: for every pair of statuses (old, new), user_can_change_status is true
\* for a Manager, Operator or QualityManager whatever the finality; for a
\* Client it is true exactly when old.id equals new.id; for an actor with no
\* resolvable role it is false always, also when old equals new.
C11_StaffClientStatusPolicy ==
    probe.done =>
        LET r == role_name(probe.user) IN
        /\ r \in StaffRoles => probe.result = TRUE
        /\ r = ROLE_CLIENT =>
              (probe.result = TRUE <=> probe.old_status.id = probe.new_status.id)
        /\ probe.user \in NoRoleUsers => probe.result = FALSE

\* A user without a role was refused the no-op on a status.
C11_Witness ==
    /\ probe.done
    /\ probe.user = 7
    /\ probe.old_status = probe.new_status
    /\ probe.result = FALSE

-----------------------------------------------------------------------------
(* Access to tickets: tickets of two clients, with and without a master,    *)
(* final and not, saved by every user and opened by every user.             *)

\* db.get(models.RepairRequest, id): the ticket object of an existing row.
LoadRequest(db, id) ==
    [f \in DOMAIN NewRequest |-> IF f = "id" THEN id ELSE db.tickets[id][f]]

\* main.py:293-353, ui_request_view, for a logged-in user: the redirect
\* status it answers with ("ok" when the page is rendered).  It writes nothing.
ViewRequest(user, request_id) ==
    /\ last' = [op |-> "ui_request_view", user |-> user,
                exc |-> IF request_id \notin DOMAIN tickets THEN "request_not_found"
                        ELSE IF ~user_can_view_request(user, LoadRequest(Db, request_id))
                        THEN "forbidden"
                        ELSE OK]
    /\ UNCHANGED <<statuses, tickets, helps, comments, equipment_models,
                   issue_types, seq, txn, probe>>

AccessSaveInputs ==
    [id : {NULL} \cup TicketIds,
     start_date : {MaxDate},
     equipment_type_id : {1},
     equipment_model_name : {Padded},
     issue_type_id : {NULL},
     problem_description : {Padded},
     status_id : {NULL, 1, 3},
     completion_date : {NULL},
     due_date : {NULL},
     repair_parts : {NoText},
     master_id : {NULL, 4, 5},
     client_id : {2, 6}]

SaveForAccess ==
    \E user \in UserIds, data \in AccessSaveInputs :
        SaveRequest(user, data, MaxDate) /\ Bounded

View ==
    \E user \in UserIds, request_id \in TicketIds : ViewRequest(user, request_id)

NextAccess == SaveForAccess \/ View

SpecAccess == Init /\ [][NextAccess]_vars

-----------------------------------------------------------------------------
\* C12: user_can_edit_request(user, ticket) is true exactly when the role is
\* Manager, Operator or QualityManager, or Master/Specialist with
\* ticket.master_id = user.id, or Client with ticket.client_id = user.id and
\* a non-final current status; so an update by the owning client of a ticket
\* whose status is final fails with PermissionDenied and leaves the ticket
\* unchanged (the state after the refused call is the state before it, so
\* this holds for every retry).
C12_EditPermission ==
    \A u \in UserIds, t \in DOMAIN tickets :
        LET req == LoadRequest(Db, t)
            final == statuses[req.status_id].is_final
            r == role_name(u)
        IN  /\ user_can_edit_request(u, req, final) <=>
                  \/ r \in StaffRoles
                  \/ r \in MasterClass /\ req.master_id = u
                  \/ r = ROLE_CLIENT /\ req.client_id = u /\ ~final
            /\ (r = ROLE_CLIENT /\ req.client_id = u /\ final) =>
                  \A data \in AccessSaveInputs :
                      data.id = t =>
                          LET res == save_request(Db, u, data, MaxDate) IN
                          /\ res.exc = "PermissionDeniedError"
                          /\ Committed(res).tickets = tickets

\* The ticket of client 6 is final, and a save has just been refused.
C12_Witness ==
    /\ last = [op |-> "save_request", exc |-> "PermissionDeniedError"]
    /\ \E t \in DOMAIN tickets :
          /\ tickets[t].client_id = 6
          /\ statuses[tickets[t].status_id].is_final

-----------------------------------------------------------------------------
\* C13: user_can_view_request(user, ticket) is true exactly when the role is
\* Manager, Operator or QualityManager, or Master/Specialist with
\* ticket.master_id = user.id, or Client with ticket.client_id = user.id,
\* whatever the finality of the ticket's status.
C13_ViewPermission ==
    \A u \in UserIds, t \in DOMAIN tickets :
        LET req == LoadRequest(Db, t)
            r == role_name(u)
        IN  user_can_view_request(u, req) <=>
                \/ r \in StaffRoles
                \/ r \in MasterClass /\ req.master_id = u
                \/ r = ROLE_CLIENT /\ req.client_id = u

\* Client 6 has just opened its own ticket, whose status is final.
C13_Witness ==
    /\ last = [op |-> "ui_request_view", user |-> 6, exc |-> OK]
    /\ \E t \in DOMAIN tickets :
          /\ tickets[t].client_id = 6
          /\ statuses[tickets[t].status_id].is_final

-----------------------------------------------------------------------------
(* Users with no resolvable role against a store that the Manager, a Master *)
(* and the QualityManager have filled: every use case called by users 7     *)
(* and 8.                                                                   *)

NoRoleActors == NoRoleUsers \cap UserIds

CommentByMaster ==
    \E request_id \in TicketIds : AddComment(4, request_id, Padded) /\ Bounded

CreateHelpByMaster ==
    \E data \in CloseCreateInputs : CreateHelpRequest(4, data) /\ Bounded

NoRoleSave ==
    \E user \in NoRoleActors, data \in SaveInputs :
        SaveRequest(user, data, MaxDate) /\ Bounded

NoRoleDelete ==
    \E user \in NoRoleActors, request_id \in TicketIds :
        DeleteRequest(user, request_id) /\ Bounded

NoRoleComment ==
    \E user \in NoRoleActors, request_id \in TicketIds, message \in Texts :
        AddComment(user, request_id, message) /\ Bounded

NoRoleCreateHelp ==
    \E user \in NoRoleActors, data \in HelpCreateInputs :
        CreateHelpRequest(user, data) /\ Bounded

NoRoleCloseHelp ==
    \E user \in NoRoleActors, data \in HelpCloseInputs :
        CloseHelpRequest(user, data, MaxDate) /\ Bounded

NextNoRole ==
    \/ SaveByManager \/ CommentByMaster \/ CreateHelpByMaster \/ CloseByQualityManager
    \/ NoRoleSave \/ NoRoleDelete \/ NoRoleComment \/ NoRoleCreateHelp \/ NoRoleCloseHelp

SpecNoRole == Init /\ [][NextNoRole]_vars

\* The handler leaves tickets, comments and help requests as they were.
LeavesStore(r) ==
    /\ Committed(r).tickets = tickets
    /\ Committed(r).comments = comments
    /\ Committed(r).helps = helps

-----------------------------------------------------------------------------
\* C14: for a user with no resolvable role (no user, no role, or a role that
\* is none of the six) every rbac predicate is false, and every use case
\* (save as create and as update, delete_request, add_comment,
\* create_help_request, close_help_request) called by such a user fails and
\* leaves all tickets, comments and help requests unchanged.
C14_FailClosed ==
    \A u \in NoRoleUsers :
        /\ ~user_can_create_request(u)
        /\ ~user_can_delete_request(u)
        /\ ~user_can_assign_master(u)
        /\ ~user_can_manage_users(u)
        /\ ~user_can_view_statistics(u)
        /\ ~user_can_view_quality_desk(u)
        /\ ~user_can_create_help_request(u)
        /\ ~user_can_handle_help_request(u)
        /\ \A old_status, new_status \in StatusObjs :
              ~user_can_change_status(u, old_status, new_status)
        /\ \A t \in DOMAIN tickets :
              LET req == LoadRequest(Db, t) IN
              /\ ~user_can_view_request(u, req)
              /\ ~user_can_edit_request(u, req, statuses[req.status_id].is_final)
              /\ ~user_can_add_comment(u, req)
        /\ \A data \in SaveInputs :
              LET r == save_request(Db, u, data, MaxDate) IN
              r.exc /= OK /\ LeavesStore(r)
        /\ \A request_id \in TicketIds :
              LET r == delete_request(Db, u, request_id) IN
              r.exc /= OK /\ LeavesStore(r)
        /\ \A request_id \in TicketIds, message \in Texts :
              LET r == add_comment(Db, u, request_id, message) IN
              r.exc /= OK /\ LeavesStore(r)
        /\ \A data \in HelpCreateInputs :
              LET r == create_help_request(Db, u, data) IN
              r.exc /= OK /\ LeavesStore(r)
        /\ \A data \in HelpCloseInputs :
              LET r == close_help_request(Db, u, data, MaxDate) IN
              r.exc /= OK /\ LeavesStore(r)

\* A user with no resolvable role has just been refused the delete of a
\* ticket that has a comment and an open help request (in this
\* specification no other user calls delete_request).
C14_Witness ==
    /\ last = [op |-> "delete_request", exc |-> "PermissionDeniedError"]
    /\ comments /= EmptyTable
    /\ \E h \in DOMAIN helps : helps[h].status = "open"

-----------------------------------------------------------------------------
(* The Client's saves under every configuration of the request_status       *)
(* table: any number of rows up to the bound, names unique (models.py:27),  *)
(* any finality.  The Manager creates and edits tickets in every configured *)
(* status; the Client creates tickets and updates them.                     *)

StatusNames == {NEW_REQUEST_STATUS_NAME, "InProgress", "Ready"}

StatusConfigs ==
    UNION {{c \in [1..n -> [name : StatusNames, is_final : BOOLEAN]] :
                \A i, j \in 1..n : c[i].name = c[j].name => i = j} :
           n \in 0..MaxStatuses}

InitConfig ==
    /\ statuses \in StatusConfigs
    /\ tickets = EmptyTable
    /\ helps = EmptyTable
    /\ comments = EmptyTable
    /\ equipment_models = EmptyTable
    /\ issue_types = EmptyTable
    /\ seq = [ticket |-> 0, help |-> 0, comment |-> 0,
              equipment_model |-> 0, issue_type |-> 0]
    /\ last = [op |-> "init", exc |-> OK]
    /\ txn = [p \in 1..NumTxns |-> Idle]
    /\ probe = NoProbe

\* The status ids a form can submit: none, one per possible row, one that
\* is in no configuration.
SubmittedStatusIds == {NULL, NoSuchStatus} \cup 1..MaxStatuses

ManagerSetupInputs ==
    [id : {NULL} \cup TicketIds,
     start_date : {MaxDate},
     equipment_type_id : {1},
     equipment_model_name : {Padded},
     issue_type_id : {NULL},
     problem_description : {Padded},
     status_id : 1..MaxStatuses,
     completion_date : {NULL},
     due_date : {NULL},
     repair_parts : {NoText},
     master_id : {NULL, 4},
     client_id : {6}]

\* The Client's form: its description tells its saves from the Manager's.
ClientSaveInputs ==
    [id : {NULL} \cup TicketIds,
     start_date : {MaxDate},
     equipment_type_id : {1},
     equipment_model_name : {Padded},
     issue_type_id : {NULL},
     problem_description : {<<"b">>},
     status_id : SubmittedStatusIds,
     completion_date : {NULL},
     due_date : {NULL},
     repair_parts : {NoText},
     master_id : {NULL},
     client_id : {6}]

SaveByManagerAnyStatus ==
    \E data \in ManagerSetupInputs : SaveRequest(1, data, MaxDate) /\ Bounded

SaveByClient ==
    \E data \in ClientSaveInputs : SaveRequest(6, data, MaxDate) /\ Bounded

NextConfig == SaveByManagerAnyStatus \/ SaveByClient \/ DeleteByManager

SpecConfig == InitConfig /\ [][NextConfig]_vars

-----------------------------------------------------------------------------
\* C15: a save (update) by a Client never changes the ticket's status: for
\* every submitted status_id (absent, the current id, another existing id,
\* an unresolvable id) the ticket's status_id after the call is its
\* status_id before, and the call does not fail because of the submitted
\* status: its outcome is the same for every submitted status_id, and on a
\* ticket the client may edit it succeeds.
C15_ClientStatusFrame ==
    \A t \in DOMAIN tickets, data \in ClientSaveInputs :
        data.id = t =>
            LET r == save_request(Db, 6, data, MaxDate)
                after == Committed(r).tickets
                req == LoadRequest(Db, t)
            IN  /\ t \in DOMAIN after
                /\ after[t].status_id = tickets[t].status_id
                /\ \A s \in SubmittedStatusIds :
                      save_request(Db, 6, [data EXCEPT !.status_id = s], MaxDate).exc = r.exc
                /\ user_can_edit_request(6, req, statuses[req.status_id].is_final) =>
                      r.exc = OK

\* The Client has just saved a ticket that the Manager had given a master
\* and a status other than the one named for new tickets.
C15_Witness ==
    /\ last = [op |-> "save_request", exc |-> OK]
    /\ \E t \in DOMAIN tickets :
          /\ tickets[t].problem_description = <<"b">>
          /\ tickets[t].master_id = 4
          /\ statuses[tickets[t].status_id].name /= NEW_REQUEST_STATUS_NAME

-----------------------------------------------------------------------------
\* The status the specification gives a Client's new ticket: the one named
\* for new tickets when there is one, otherwise the non-final status with
\* the lowest id (NULL when there is neither).
NamedStatuses == {i \in DOMAIN statuses : statuses[i].name = NEW_REQUEST_STATUS_NAME}
NonFinalStatuses == {i \in DOMAIN statuses : ~statuses[i].is_final}

\* C16: for every configuration of the status table and every submitted
\* status_id, a ticket created by a Client through save is given a non-final
\* status: the status named for new tickets when present, otherwise the
\* non-final status with the lowest id.
C16_ClientCreateNonFinal ==
    \A data \in ClientSaveInputs :
        data.id = NULL =>
            LET r == save_request(Db, 6, data, MaxDate)
                after == Committed(r).tickets
            IN  r.exc = OK =>
                    /\ r.id \in DOMAIN after
                    /\ ~statuses[after[r.id].status_id].is_final
                    /\ IF NamedStatuses /= {}
                       THEN after[r.id].status_id \in NamedStatuses
                       ELSE /\ after[r.id].status_id \in NonFinalStatuses
                            /\ \A j \in NonFinalStatuses : after[r.id].status_id <= j

-----------------------------------------------------------------------------
\* C17: when no non-final status is configured, a save (create) by a Client
\* fails with BusinessRuleViolation, the typed domain failure that the
\* handler's domain-error branch rolls back, and no ticket is created.
C17_MissingConfigurationIsDomainError ==
    \A data \in ClientSaveInputs :
        (data.id = NULL /\ NonFinalStatuses = {}) =>
            LET r == save_request(Db, 6, data, MaxDate) IN
            /\ r.exc = "BusinessRuleViolationError"
            /\ Committed(r).tickets = tickets

\* The part of C17 that the code keeps: with no status row that is non-final
\* or named for new tickets, the Client's create raises and creates nothing.
MissingConfigurationRaises ==
    \A data \in ClientSaveInputs :
        (data.id = NULL /\ NonFinalStatuses = {} /\ NamedStatuses = {}) =>
            LET r == save_request(Db, 6, data, MaxDate) IN
            /\ r.exc = "RuntimeError"
            /\ Committed(r).tickets = tickets

-----------------------------------------------------------------------------
\* A create (save without a ticket id) that supplies a resolvable status id
\* and a client id succeeds for every actor of the given roles and yields a
\* new ticket whose client is the supplied client.
CreateSucceedsFor(roles) ==
    \A u \in UserIds, data \in StatusSaveInputs :
        (/\ role_name(u) \in roles
         /\ data.id = NULL
         /\ data.status_id \in DOMAIN statuses
         /\ Truthy(data.client_id)) =>
            LET r == save_request(Db, u, data, MaxDate)
                after == Committed(r).tickets
            IN  /\ r.exc = OK
                /\ r.id \notin DOMAIN tickets
                /\ r.id \in DOMAIN after
                /\ after[r.id].client_id = data.client_id

\* C18: a save without a ticket id by a QualityManager that supplies a
\* resolvable status id and a client id succeeds and yields a new ticket
\* whose client is the supplied client, just as for a Manager and an Operator.
C18_QualityManagerCreates == CreateSucceedsFor(StaffRoles)

\* The part of C18 that the code keeps: the create of a Manager or Operator.
ManagerOperatorCreate == CreateSucceedsFor({ROLE_MANAGER, ROLE_OPERATOR})

-----------------------------------------------------------------------------
\* C19: in every state reachable by save and close_help_request calls, each
\* ticket's assigned master is absent or the id of an existing user whose
\* role is Master or Specialist.
C19_MasterIsMasterClass ==
    \A t \in DOMAIN tickets :
        \/ tickets[t].master_id = NULL
        \/ /\ tickets[t].master_id \in UserIds
           /\ users[tickets[t].master_id] \in MasterClass

\* The part of C19 that the code keeps: the master is absent or an existing
\* user (the foreign key), and close_help_request never assigns a user that
\* is not master-class.
MasterIsUser ==
    /\ \A t \in DOMAIN tickets : tickets[t].master_id \in UserIds \cup {NULL}
    /\ \A h \in DOMAIN helps :
          helps[h].assigned_master_id /= NULL =>
              users[helps[h].assigned_master_id] \in MasterClass

-----------------------------------------------------------------------------
\* C20: in every state reachable by use-case calls from an empty ticket
\* store, every ticket whose current status is final has a completion_date.
C20_FinalHasCompletionDate ==
    \A t \in DOMAIN tickets :
        statuses[tickets[t].status_id].is_final => tickets[t].completion_date /= NULL

\* A ticket was saved into a final status with no completion date submitted
\* (none of the saves of this specification submits one) and carries the
\* date of the save, and its help request has been closed since.
C20_Witness ==
    \E t \in DOMAIN tickets :
        /\ statuses[tickets[t].status_id].is_final
        /\ tickets[t].completion_date = MaxDate
        /\ ClosedHelpsOf(t) /= {}

-----------------------------------------------------------------------------
(* Saving tickets under every input of the role-gated fields: completion    *)
(* date, due date, repair parts, master and client.                         *)

PartsTexts == {NoText, <<Padded>>}

\* The saves that are run.  Client id 2 is an existing user other than the
\* acting Client.
FieldSaveInputs ==
    [id : {NULL} \cup TicketIds,
     start_date : {MaxDate},
     equipment_type_id : {1},
     equipment_model_name : {Padded},
     issue_type_id : {NULL},
     problem_description : {Padded},
     status_id : {NULL, 1, 3},
     completion_date : {NULL, 1},
     due_date : {NULL, 1},
     repair_parts : PartsTexts,
     master_id : {NULL, 4, 5},
     client_id : {NULL, 2, 6}]

\* The saves whose outcome is examined in each state: those above, and in
\* addition a blank repair-parts text, master id 0 and client id 0.
FieldProbeInputs ==
    [id : {NULL} \cup TicketIds,
     start_date : {MaxDate},
     equipment_type_id : {1},
     equipment_model_name : {Padded},
     issue_type_id : {NULL},
     problem_description : {Padded},
     status_id : {NULL, 1, 3},
     completion_date : {NULL, 1},
     due_date : {NULL, 1},
     repair_parts : PartsTexts \cup {<<Blank>>},
     master_id : {NULL, 0, 4, 5},
     client_id : {NULL, 0, 2, 6}]

\* main.py:557-587 with the acting user kept in the record of the call.
SaveRequestBy(user, data, today) ==
    \E res \in {save_request(Db, user, data, today)} :
      \E commit \in {res.exc = OK /\ IntegrityOk(res.db)} :
        /\ tickets' = IF commit THEN res.db.tickets ELSE tickets
        /\ equipment_models' = IF commit THEN res.db.equipment_models ELSE equipment_models
        /\ issue_types' = IF commit THEN res.db.issue_types ELSE issue_types
        /\ seq' = IF commit THEN res.db.seq ELSE seq
        /\ last' = [op |-> "save_request", user |-> user,
                    exc |-> IF res.exc = OK /\ ~commit THEN "SQLAlchemyError" ELSE res.exc]
        /\ UNCHANGED <<statuses, helps, comments, txn, probe>>

SaveAnyField ==
    \E user \in UserIds, data \in FieldSaveInputs :
        SaveRequestBy(user, data, MaxDate) /\ Bounded

\* main.py:602-618 by the Manager.
DeleteForFields == DeleteRequest(1, 1) /\ Bounded

NextFields == SaveAnyField \/ DeleteForFields

SpecFields == Init /\ [][NextFields]_vars

\* The save r was committed.
Succeeds(r) == r.exc = OK /\ IntegrityOk(r.db)

\* The last call was a committed save by a user of role role.
SavedBy(role) ==
    /\ last.op = "save_request" /\ last.exc = OK
    /\ "user" \in DOMAIN last /\ users[last.user] = role

-----------------------------------------------------------------------------
\* C21: after every successful save (create or update, by any role, the
\* status changed or not), the ticket's completion_date is, when the
\* resolved status is final, the submitted completion date or the current
\* date when none was submitted (a stored date is not retained), and, when
\* the resolved status is non-final, the submitted value, null included.
C21_CompletionDateGate ==
    \A u \in UserIds, data \in FieldProbeInputs :
        \E r \in {save_request(Db, u, data, MaxDate)} :
            Succeeds(r) =>
                LET row == r.db.tickets[r.id] IN
                row.completion_date =
                    IF statuses[row.status_id].is_final
                    THEN (IF data.completion_date /= NULL THEN data.completion_date
                          ELSE MaxDate)
                    ELSE data.completion_date

\* A final ticket carries the date of the save that was committed last, by a
\* user who is not of the staff: an update that submitted no completion date.
C21_Witness ==
    /\ SavedBy(ROLE_MASTER)
    /\ \E t \in DOMAIN tickets :
          /\ statuses[tickets[t].status_id].is_final
          /\ tickets[t].completion_date = MaxDate
          /\ tickets[t].master_id = last.user

-----------------------------------------------------------------------------
\* C22: after a successful save the ticket's due_date is the submitted one
\* (null included) when the actor is Manager, Operator or QualityManager; on
\* an update by a Master, Specialist or Client it is the due_date the ticket
\* had before, whatever was submitted; on a create by a Client it is null.
C22_DueDateGate ==
    \A u \in UserIds, data \in FieldProbeInputs :
        \E r \in {save_request(Db, u, data, MaxDate)} :
            Succeeds(r) =>
                LET row == r.db.tickets[r.id] IN
                /\ users[u] \in StaffRoles => row.due_date = data.due_date
                /\ (users[u] \in MasterClass \cup {ROLE_CLIENT} /\ data.id /= NULL) =>
                       row.due_date = tickets[data.id].due_date
                /\ (users[u] = ROLE_CLIENT /\ data.id = NULL) => row.due_date = NULL

\* The Specialist assigned to a ticket has saved it, and the ticket has the
\* due date a staff user gave it.
C22_Witness ==
    /\ SavedBy(ROLE_SPECIALIST)
    /\ \E t \in DOMAIN tickets :
          tickets[t].due_date = 1 /\ tickets[t].master_id = last.user

-----------------------------------------------------------------------------
\* C23: after a successful save the ticket's master_id is the submitted
\* master id (null when none) when the actor is Manager, Operator or
\* QualityManager; on an update by a Master, Specialist or Client it is the
\* master_id the ticket had before, whatever was submitted; on a create by a
\* Client it is null.
C23_MasterGate ==
    \A u \in UserIds, data \in FieldProbeInputs :
        \E r \in {save_request(Db, u, data, MaxDate)} :
            Succeeds(r) =>
                LET row == r.db.tickets[r.id] IN
                /\ users[u] \in StaffRoles =>
                       row.master_id = IF Truthy(data.master_id) THEN data.master_id ELSE NULL
                /\ (users[u] \in MasterClass \cup {ROLE_CLIENT} /\ data.id /= NULL) =>
                       row.master_id = tickets[data.id].master_id
                /\ (users[u] = ROLE_CLIENT /\ data.id = NULL) => row.master_id = NULL

\* The Client owning a ticket has saved it, and the ticket still has the
\* master a staff user assigned.
C23_Witness ==
    /\ SavedBy(ROLE_CLIENT)
    /\ \E t \in DOMAIN tickets :
          tickets[t].master_id = 4 /\ tickets[t].client_id = last.user

-----------------------------------------------------------------------------
\* C24: after a successful save the ticket's repair_parts is the trimmed
\* submitted text (null when blank) when the actor is Manager, Operator,
\* Master or Specialist; on an update by a Client it is the value the ticket
\* had before, whatever was submitted; on a create by a Client it is null.
C24_RepairPartsGate ==
    \A u \in UserIds, data \in FieldProbeInputs :
        \E r \in {save_request(Db, u, data, MaxDate)} :
            Succeeds(r) =>
                LET row == r.db.tickets[r.id] IN
                /\ users[u] \in {ROLE_MANAGER, ROLE_OPERATOR} \cup MasterClass =>
                       row.repair_parts =
                           (IF data.repair_parts = <<Padded>> THEN << <<"a">> >> ELSE NoText)
                /\ (users[u] = ROLE_CLIENT /\ data.id /= NULL) =>
                       row.repair_parts = tickets[data.id].repair_parts
                /\ (users[u] = ROLE_CLIENT /\ data.id = NULL) => row.repair_parts = NoText

\* The Master assigned to a ticket has saved it, and the ticket has the
\* trimmed text.
C24_Witness ==
    /\ SavedBy(ROLE_MASTER)
    /\ \E t \in DOMAIN tickets :
          tickets[t].repair_parts = << <<"a">> >> /\ tickets[t].master_id = last.user

-----------------------------------------------------------------------------
\* C25: a save by a Client sets the ticket's client to the actor's own id,
\* whatever client id was submitted; a save by a Manager or Operator sets it
\* to the submitted client id, and when none is submitted it fails (with
\* BusinessRuleViolation once the ticket to save has been found) and writes
\* nothing; an update by a Master, Specialist or QualityManager leaves the
\* ticket's client unchanged.
C25_ClientGate ==
    \A u \in UserIds, data \in FieldProbeInputs :
        \E r \in {save_request(Db, u, data, MaxDate)} :
            /\ Succeeds(r) =>
                   LET row == r.db.tickets[r.id] IN
                   /\ users[u] = ROLE_CLIENT => row.client_id = u
                   /\ users[u] \in {ROLE_MANAGER, ROLE_OPERATOR} =>
                          row.client_id = data.client_id
                   /\ (users[u] \in MasterClass \cup {ROLE_QUALITY_MANAGER} /\ data.id /= NULL) =>
                          row.client_id = tickets[data.id].client_id
            /\ (users[u] \in {ROLE_MANAGER, ROLE_OPERATOR} /\ ~Truthy(data.client_id)) =>
                   /\ ~Succeeds(r)
                   /\ Committed(r) = Db
                   /\ (data.id = NULL \/ data.id \in DOMAIN tickets) =>
                          r.exc = "BusinessRuleViolationError"

\* The Operator has been refused a save, and the ticket in the store is one
\* whose client is not the client who created it.
C25_Witness ==
    /\ last.op = "save_request" /\ last.exc = "BusinessRuleViolationError"
    /\ "user" \in DOMAIN last /\ users[last.user] = ROLE_OPERATOR
    /\ \E t \in DOMAIN tickets : tickets[t].client_id = 2

-----------------------------------------------------------------------------
\* C26: delete_request on an existing ticket removes it only when the
\* actor's role is Manager or Operator; for every other actor (QualityManager,
\* Master, Specialist, Client, no role, an unknown role, no user) it fails
\* with PermissionDenied and the ticket, its comments and its help requests
\* remain; on a ticket id that does not exist it fails with RequestNotFound
\* for every actor.
C26_DeletePermission ==
    \A u \in UserIds \cup {NULL}, t \in TicketIds :
        \E r \in {delete_request(Db, u, t)} :
            \E after \in {Committed(r)} :
                IF t \notin DOMAIN tickets
                THEN r.exc = "RequestNotFoundError" /\ after = Db
                ELSE IF role_name(u) \in {ROLE_MANAGER, ROLE_OPERATOR}
                THEN r.exc = OK /\ t \notin DOMAIN after.tickets
                ELSE /\ r.exc = "PermissionDeniedError"
                     /\ after.tickets = tickets
                     /\ after.comments = comments
                     /\ after.helps = helps

\* A delete has just been refused, and the ticket is there with a comment
\* and a help request.
C26_Witness ==
    /\ last = [op |-> "delete_request", exc |-> "PermissionDeniedError"]
    /\ \E t \in DOMAIN tickets :
          /\ \E c \in DOMAIN comments : comments[c].request_id = t
          /\ \E h \in DOMAIN helps : helps[h].request_id = t

-----------------------------------------------------------------------------
(* Deleting one of several tickets, each with comments and help requests. *)

\* tickets and comments in the specification of the deletes
MaxTicketsDelete == 2
MaxCommentsDelete == 2

DeleteTicketIds == 1..MaxTicketsDelete

\* A new ticket assigned to the Master (user 4).
DeleteSetupInput ==
    [id |-> NULL, start_date |-> 1, equipment_type_id |-> 1,
     equipment_model_name |-> Padded, issue_type_id |-> NULL,
     problem_description |-> Padded, status_id |-> 1, completion_date |-> NULL,
     due_date |-> NULL, repair_parts |-> NoText, master_id |-> 4, client_id |-> 6]

BoundedDelete == WithinBounds(MaxTicketsDelete, MaxHelps, MaxCommentsDelete)

SaveForDelete == SaveRequest(1, DeleteSetupInput, MaxDate) /\ BoundedDelete

CommentForDelete ==
    \E request_id \in DeleteTicketIds :
        AddComment(4, request_id, Padded) /\ BoundedDelete

CreateHelpForDelete ==
    \E request_id \in DeleteTicketIds :
        /\ CreateHelpRequest(4, [request_id |-> request_id, message |-> Padded,
                                 proposed_due_date |-> NULL])
        /\ BoundedDelete

CloseHelpForDelete ==
    \E help_id \in HelpIds :
        /\ CloseHelpRequest(3, [help_id |-> help_id, resolution_note |-> Padded,
                                assigned_master_id |-> NULL, new_due_date |-> NULL],
                            MaxDate)
        /\ BoundedDelete

DeleteAnyTicket ==
    \E user \in UserIds, request_id \in DeleteTicketIds :
        DeleteRequest(user, request_id) /\ BoundedDelete

NextDelete ==
    \/ SaveForDelete \/ CommentForDelete \/ CreateHelpForDelete
    \/ CloseHelpForDelete \/ DeleteAnyTicket

SpecDelete == Init /\ [][NextDelete]_vars

\* The rows of table whose request_id is not t.
RowsNotOf(table, t) ==
    [i \in {j \in DOMAIN table : table[j].request_id /= t} |-> table[i]]

-----------------------------------------------------------------------------
\* C27: in every reachable state every comment and every help request (open
\* or closed) references a ticket that exists; and a delete_request by a
\* Manager or Operator on an existing ticket succeeds and removes, together
\* with the ticket, all of its comments and all of its help requests, and no
\* comment, help request or ticket besides.
C27_ReferentialIntegrity ==
    /\ \A c \in DOMAIN comments : comments[c].request_id \in DOMAIN tickets
    /\ \A h \in DOMAIN helps : helps[h].request_id \in DOMAIN tickets
    /\ \A u \in UserIds, t \in DOMAIN tickets :
          users[u] \in {ROLE_MANAGER, ROLE_OPERATOR} =>
              \E r \in {delete_request(Db, u, t)} :
                  /\ Succeeds(r)
                  /\ DOMAIN r.db.tickets = DOMAIN tickets \ {t}
                  /\ \A o \in DOMAIN r.db.tickets : r.db.tickets[o] = tickets[o]
                  /\ r.db.comments = RowsNotOf(comments, t)
                  /\ r.db.helps = RowsNotOf(helps, t)

\* A ticket has just been deleted with a comment of its own; the other
\* ticket is left with its comment and its open help request.
C27_Witness ==
    /\ last = [op |-> "delete_request", exc |-> OK]
    /\ seq.ticket = MaxTicketsDelete
    /\ seq.comment > Cardinality(DOMAIN comments)
    /\ \E t \in DOMAIN tickets :
          /\ \E c \in DOMAIN comments : comments[c].request_id = t
          /\ OpenHelpsOf(t) /= {}

-----------------------------------------------------------------------------
\* The messages an add_comment call is examined with: empty, blank, padded.
CommentTexts == Texts \cup {<<>>}

\* What add_comment answers in the current state, for every actor (no user
\* included), ticket id and message.
AddCommentOutcomes ==
    \A u \in UserIds \cup {NULL}, t \in TicketIds, message \in CommentTexts :
        \E r \in {add_comment(Db, u, t, message)} :
            \E after \in {Committed(r)} :
                IF t \notin DOMAIN tickets
                THEN r.exc = "RequestNotFoundError" /\ after = Db
                ELSE IF ~(role_name(u) \in MasterClass /\ tickets[t].master_id = u)
                THEN r.exc = "PermissionDeniedError" /\ after = Db
                ELSE IF message /= Padded
                THEN r.exc = "BusinessRuleViolationError" /\ after = Db
                ELSE /\ r.exc = OK
                     /\ r.id \notin DOMAIN comments
                     /\ DOMAIN after.comments = DOMAIN comments \cup {r.id}
                     /\ \A c \in DOMAIN comments : after.comments[c] = comments[c]
                     /\ after.comments[r.id] =
                            [request_id |-> t, master_id |-> u, message |-> <<"a">>]
                     /\ after.tickets = tickets /\ after.helps = helps

\* Every comment that a step adds is written by the user who is the
\* ticket's assigned master in the state the step starts from.
CommentAddedByAssignedMaster ==
    \A c \in DOMAIN comments' \ DOMAIN comments :
        /\ comments'[c].request_id \in DOMAIN tickets
        /\ IsAssignedMaster(comments'[c].master_id, comments'[c].request_id)

\* C28: add_comment adds a comment only when the actor has a master-class
\* role, is the ticket's assigned master and the message is not empty after
\* trimming; it fails with RequestNotFound when the ticket does not exist,
\* with PermissionDenied for any other actor and with BusinessRuleViolation
\* for a blank message, adding no comment in each failing case; hence each
\* comment's author is a master-class user who was the ticket's assigned
\* master when the comment was created.
C28_CommentPermission ==
    /\ [](AddCommentOutcomes /\
          \A c \in DOMAIN comments : role_name(comments[c].master_id) \in MasterClass)
    /\ [][CommentAddedByAssignedMaster]_vars

\* A comment whose author is no longer the master of its ticket: the ticket
\* was reassigned after the comment was written.
C28_Witness ==
    \E c \in DOMAIN comments :
        /\ role_name(comments[c].master_id) \in MasterClass
        /\ tickets[comments[c].request_id].master_id /= comments[c].master_id
        /\ tickets[comments[c].request_id].master_id /= NULL

-----------------------------------------------------------------------------
\* The persisted store.
Store == <<tickets, comments, helps, equipment_models, issue_types>>

\* C29: for every use-case call that raises, once the caller has rolled
\* back, the persisted store (tickets, comments, help requests, equipment
\* models, issue types) is the store before the call; in particular an
\* equipment model or issue type that save inserted and flushed before its
\* not-found, permission or status check failed is not persisted.
C29_Atomicity == [][last'.exc /= OK => Store' = Store]_vars

\* A save has just failed on its ticket lookup after it had flushed a new
\* equipment model and a new issue type, and neither table has a row.
C29_Witness ==
    /\ last = [op |-> "save_request", exc |-> "RequestNotFoundError"]
    /\ equipment_models = EmptyTable
    /\ issue_types = EmptyTable
    /\ \A u \in UserIds, data \in SaveInputs :
          \E r \in {save_request(Db, u, data, MaxDate)} :
              r.exc = "RequestNotFoundError" =>
                  /\ r.db.equipment_models /= EmptyTable
                  /\ r.db.issue_types /= EmptyTable

-----------------------------------------------------------------------------
(* The codes under which the handlers report a failed call. *)

\* The subclasses of DomainError (usecases.py:21-42).
DomainErrors ==
    {"PermissionDeniedError", "StatusChangeForbiddenError", "RequestNotFoundError",
     "HelpRequestNotFoundError", "HelpRequestAlreadyOpenError",
     "BusinessRuleViolationError"}

\* The status the handlers redirect with on SQLAlchemyError (main.py:575-579).
PersistenceCode == "db_error"

\* The status a handler reports for a call that ended with exc: the code of
\* a DomainError, the persistence code for an SQLAlchemyError.
ReportedStatus(exc) ==
    IF exc \in DomainErrors THEN CodeOf(exc)
    ELSE IF exc = "SQLAlchemyError" THEN PersistenceCode
    ELSE exc

\* C30: every failure kind is distinguishable by its code: the code of the
\* domain failure a call ended with is the code of no other domain failure
\* type, and is not the code under which the caller reports an opaque
\* persistence failure.
C30_FailuresDistinguishable ==
    last.exc \in DomainErrors =>
        /\ \A e \in DomainErrors \ {last.exc} : CodeOf(e) /= CodeOf(last.exc)
        /\ ReportedStatus(last.exc) /= ReportedStatus("SQLAlchemyError")

\* The six domain failure types carry pairwise distinct codes.
DomainCodesPairwiseDistinct ==
    \A e1, e2 \in DomainErrors : CodeOf(e1) = CodeOf(e2) => e1 = e2

-----------------------------------------------------------------------------
(* services.py: calculate_statistics_from_rows.  A row is a RequestRow      *)
(* [start_date, completion_date, status_is_final], a date the number of its *)
(* day; the two breakdowns by name are left out.                            *)

\* rows of the list the statistics are computed from
MaxRows == 3

\* Optional[float] None, and the float that sum / count gives, kept as the
\* fraction it is the value of.
NoAverage == <<>>
Average(sum, count) == << [num |-> sum, den |-> count] >>

\* (completion_date - start_date).days
DaysBetween(start_date, completion_date) == completion_date - start_date

RECURSIVE SumSeq(_)
SumSeq(s) == IF s = <<>> THEN 0 ELSE Head(s) + SumSeq(Tail(s))

\* The for loop (services.py:162-178) from row i on, acc the counters so far.
RECURSIVE StatisticsLoop(_, _, _)
StatisticsLoop(rows, i, acc) ==
    IF i > Len(rows) THEN acc
    ELSE
        LET r == rows[i]
            counted == [acc EXCEPT !.total_requests = @ + 1]
        IN  IF r.status_is_final /\ r.completion_date /= NULL
            THEN LET delta == DaysBetween(r.start_date, r.completion_date)
                     done == [counted EXCEPT !.completed_requests = @ + 1]
                 IN  IF delta < 0
                     THEN StatisticsLoop(rows, i + 1, done)
                     ELSE StatisticsLoop(rows, i + 1,
                              [done EXCEPT !.durations_days = Append(@, delta)])
            ELSE StatisticsLoop(rows, i + 1, counted)

\* Mutant of calculate_statistics_from_rows: the sum of the durations is
\* divided by the number of completed rows.
calculate_statistics_from_rows_PerCompleted(rows) ==
    LET acc == StatisticsLoop(rows, 1,
                   [total_requests |-> 0, completed_requests |-> 0,
                    durations_days |-> <<>>])
    IN  [total_requests |-> acc.total_requests,
         completed_requests |-> acc.completed_requests,
         average_repair_time_days |->
             IF acc.durations_days /= <<>>
             THEN Average(SumSeq(acc.durations_days), acc.completed_requests)
             ELSE NoAverage]

calculate_statistics_from_rows(rows) ==
    LET acc == StatisticsLoop(rows, 1,
                   [total_requests |-> 0, completed_requests |-> 0,
                    durations_days |-> <<>>])
    IN  [total_requests |-> acc.total_requests,
         completed_requests |-> acc.completed_requests,
         average_repair_time_days |->
             IF acc.durations_days /= <<>>
             THEN Average(SumSeq(acc.durations_days), Len(acc.durations_days))
             ELSE NoAverage]

\* The rows of test_statistics.py:8-30, the dates as days of the year 2023.
TestRows ==
    << [start_date |-> 1, completion_date |-> 6, status_is_final |-> TRUE],
       [start_date |-> 10, completion_date |-> 11, status_is_final |-> TRUE],
       [start_date |-> 32, completion_date |-> NULL, status_is_final |-> FALSE] >>

RequestRows ==
    [start_date : Dates, completion_date : {NULL} \cup Dates,
     status_is_final : BOOLEAN]

RECURSIVE RowLists(_)
RowLists(n) ==
    IF n = 0 THEN {<<>>}
    ELSE LET shorter == RowLists(n - 1) IN
         shorter \cup {Append(l, r) : l \in {s \in shorter : Len(s) = n - 1},
                                      r \in RequestRows}

InitStatistics ==
    /\ statuses = StatusTable
    /\ tickets = EmptyTable
    /\ helps = EmptyTable
    /\ comments = EmptyTable
    /\ equipment_models = EmptyTable
    /\ issue_types = EmptyTable
    /\ seq = [ticket |-> 0, help |-> 0, comment |-> 0,
              equipment_model |-> 0, issue_type |-> 0]
    /\ last = [op |-> "init", exc |-> OK]
    /\ txn = [p \in 1..NumTxns |-> Idle]
    /\ \E rows \in RowLists(MaxRows) \cup {TestRows} :
          probe = [rows |-> rows, done |-> FALSE,
                   result |-> calculate_statistics_from_rows(<<>>)]

CalculateStatistics ==
    /\ ~probe.done
    /\ probe' = [probe EXCEPT !.done = TRUE,
                              !.result = calculate_statistics_from_rows(probe.rows)]
    /\ Unchanged_store

SpecStatistics == InitStatistics /\ [][CalculateStatistics]_vars

\* The positions of the rows that are final and have a completion date, and
\* those of them whose duration is not negative.
CompletedRows(rows) ==
    {i \in 1..Len(rows) : rows[i].status_is_final /\ rows[i].completion_date /= NULL}

TimedRows(rows) ==
    {i \in CompletedRows(rows) : rows[i].completion_date >= rows[i].start_date}

RECURSIVE DurationSum(_, _)
DurationSum(rows, positions) ==
    IF positions = {} THEN 0
    ELSE LET i == CHOOSE j \in positions : TRUE IN
         (rows[i].completion_date - rows[i].start_date)
             + DurationSum(rows, positions \ {i})

-----------------------------------------------------------------------------
\* C31: calculate_statistics_from_rows over a finite list of rows returns
\* total_requests equal to the number of rows, completed_requests equal to
\* the number of rows that are final and have a completion date, and
\* average_repair_time_days equal to the sum of the durations in days divided
\* by their count, over the completed rows with a non-negative duration
\* (absent when there are none); for the three rows with durations 5 days,
\* 1 day and an unfinished one the result is total 3, completed 2, average 3.
C31_Statistics ==
    probe.done =>
        LET rows == probe.rows
            timed == TimedRows(rows)
            avg == probe.result.average_repair_time_days
        IN  /\ probe.result.total_requests = Len(rows)
            /\ probe.result.completed_requests = Cardinality(CompletedRows(rows))
            /\ timed = {} <=> avg = NoAverage
            /\ timed /= {} =>
                   avg[1].num * Cardinality(timed) = DurationSum(rows, timed) * avg[1].den
            /\ rows = TestRows =>
                   /\ probe.result.total_requests = 3
                   /\ probe.result.completed_requests = 2
                   /\ avg /= NoAverage /\ avg[1].num = 3 * avg[1].den

\* The statistics of the three rows of the test have been computed.
C31_Witness ==
    /\ probe.done
    /\ probe.rows = TestRows
    /\ probe.result.average_repair_time_days = Average(6, 2)

-----------------------------------------------------------------------------
\* A save by a staff user, of a new ticket or of one in the store, fails
\* with BusinessRuleViolation and leaves the tickets alone whenever its
\* status id is one of unresolved.
StaffSaveRefused(unresolved(_, _)) ==
    \A u \in UserIds, data \in StatusSaveInputs :
        (/\ users[u] \in StaffRoles
         /\ data.id = NULL \/ data.id \in DOMAIN tickets
         /\ unresolved(data.id, data.status_id)) =>
            \E r \in {save_request(Db, u, data, MaxDate)} :
                /\ r.exc = "BusinessRuleViolationError"
                /\ Committed(r).tickets = tickets

AbsentOrUnknown(id, status_id) == status_id \notin DOMAIN statuses

AbsentOnCreateOrUnknown(id, status_id) ==
    /\ status_id \notin DOMAIN statuses
    /\ status_id = NULL => id = NULL

\* C32: for every save (create or update) by a Manager, Operator or
\* QualityManager, a status id that is absent or does not resolve to an
\* existing status makes the save fail with BusinessRuleViolation, and no
\* ticket is created or changed.
C32_StaffStatusRequired == StaffSaveRefused(AbsentOrUnknown)

\* The same for a status id that resolves to no status, and for an absent
\* one on create.
StaffUnknownStatusRefused == StaffSaveRefused(AbsentOnCreateOrUnknown)

-----------------------------------------------------------------------------
\* In the store db ticket t is assigned to m2, and of the four things a
\* master does with a ticket (view, edit, comment, ask for help) the
\* master-class user m1 is refused each with PermissionDenied while m2 is
\* let through each: it sees the ticket, no save is refused for lack of
\* permission and a save that keeps the status succeeds, a comment is added,
\* and a help request is opened unless one is open already.
MasterAccess(db, t, m1, m2) ==
    /\ db.tickets[t].master_id = m2
    /\ ~user_can_view_request(m1, LoadRequest(db, t))
    /\ user_can_view_request(m2, LoadRequest(db, t))
    /\ \A data \in CloseSaveInputs :
          data.id = t =>
              /\ save_request(db, m1, data, MaxDate).exc = "PermissionDeniedError"
              /\ \E r \in {save_request(db, m2, data, MaxDate)} :
                    /\ r.exc /= "PermissionDeniedError"
                    /\ data.status_id = db.tickets[t].status_id =>
                           r.exc = OK /\ IntegrityOk(r.db)
    /\ \A message \in Texts :
          add_comment(db, m1, t, message).exc = "PermissionDeniedError"
    /\ add_comment(db, m2, t, Padded).exc = OK
    /\ \A data \in HelpCreateInputs :
          data.request_id = t =>
              /\ create_help_request(db, m1, data).exc = "PermissionDeniedError"
              /\ data.message = Padded =>
                     create_help_request(db, m2, data).exc =
                         IF OpenHelpExists(db, t) THEN "HelpRequestAlreadyOpenError" ELSE OK

MasterUsers == {u \in UserIds : users[u] \in MasterClass}

\* Whoever is the master of a ticket, that user has the access and every
\* other master-class user is refused.
AccessFollowsMaster ==
    \A t \in DOMAIN tickets, m1, m2 \in MasterUsers :
        (m1 /= m2 /\ tickets[t].master_id = m2) => MasterAccess(Db, t, m1, m2)

\* A step that closes an open help request of a ticket of m1 with the
\* reassignment to another master-class user m2 hands the access over, and
\* m2 can open a help request at once.
ReassignmentHandsOver ==
    \A h \in DOMAIN helps \cap DOMAIN helps', m1, m2 \in MasterUsers :
        (/\ helps[h].status = "open" /\ helps'[h].status = "closed"
         /\ helps'[h].assigned_master_id = m2
         /\ tickets[helps[h].request_id].master_id = m1
         /\ m1 /= m2) =>
            /\ MasterAccess(Db', helps[h].request_id, m1, m2)
            /\ ~OpenHelpExists(Db', helps[h].request_id)

\* C33: after a successful close_help_request that reassigns ticket T from
\* master M1 to a different master-class user M2, M1 can no longer view or
\* edit T, add a comment to T or open a help request for T (each attempt
\* fails with PermissionDenied), while M2 can do all four, until T's master
\* is changed again.
C33_ReassignmentTransfersAccess ==
    []AccessFollowsMaster /\ [][ReassignmentHandsOver]_vars

\* A help request the Master (user 4) opened has been closed with the
\* reassignment to the Specialist (user 5), who is the ticket's master now.
C33_Witness ==
    /\ last = [op |-> "close_help_request", exc |-> OK]
    /\ \E h \in DOMAIN helps :
          /\ helps[h].status = "closed"
          /\ helps[h].created_by_master_id = 4
          /\ helps[h].assigned_master_id = 5
          /\ tickets[helps[h].request_id].master_id = 5

-----------------------------------------------------------------------------
(* Closing under fair scheduling: the Manager creates, edits (status,       *)
(* master) and deletes the ticket, its master asks for help, and a close    *)
(* that supplies neither a master nor a due date is called for every help   *)
(* request again and again.                                                 *)

LiveSaveInputs ==
    [id : {NULL} \cup TicketIds,
     start_date : {MaxDate},
     equipment_type_id : {1},
     equipment_model_name : {Padded},
     issue_type_id : {NULL},
     problem_description : {Padded},
     status_id : {1, 3},
     completion_date : {NULL},
     due_date : {NULL},
     repair_parts : {NoText},
     master_id : {NULL, 4, 5},
     client_id : {6}]

\* A HelpRequestCloseInput with no assigned_master_id and no new_due_date.
PlainClose(help_id, resolution_note) ==
    [help_id |-> help_id, resolution_note |-> resolution_note,
     assigned_master_id |-> NULL, new_due_date |-> NULL]

SaveForLive ==
    \E data \in LiveSaveInputs : SaveRequest(1, data, MaxDate) /\ Bounded

CreateHelpForLive ==
    \E user \in MasterUsers, request_id \in TicketIds :
        /\ CreateHelpRequest(user, [request_id |-> request_id, message |-> Padded,
                                    proposed_due_date |-> NULL])
        /\ Bounded

\* A close of help request help_id by the Manager or the QualityManager.
ClosePlain(help_id) ==
    \E user \in {1, 3} :
        CloseHelpRequest(user, PlainClose(help_id, Padded), MaxDate) /\ Bounded

ClosePlainAny == \E help_id \in HelpIds : ClosePlain(help_id)

NextLive == SaveForLive \/ CreateHelpForLive \/ ClosePlainAny \/ DeleteByManager

\* The close of each help request is called again and again.
FairClose == \A help_id \in HelpIds : WF_vars(ClosePlain(help_id))

SpecLive == Init /\ [][NextLive]_vars /\ FairClose

\* Every open help request can be closed now by every handler with a close
\* that supplies neither a master nor a due date.
OpenCanBeClosed ==
    \A h \in DOMAIN helps, u \in UserIds, note \in Texts :
        (helps[h].status = "open" /\ users[u] \in HandlerRoles) =>
            \E r \in {close_help_request(Db, u, PlainClose(h, note), MaxDate)} :
                /\ r.exc = OK /\ IntegrityOk(r.db)
                /\ r.db.helps[h].status = "closed"

IsOpen(h) == h \in DOMAIN helps /\ helps[h].status = "open"

\* C34: in every reachable state a close_help_request on an open help
\* request by a Manager or QualityManager that supplies neither
\* assigned_master_id nor new_due_date succeeds, whatever the state of the
\* parent ticket; hence, under fair scheduling of such a call, every open
\* help request is eventually closed or removed by the delete cascade.
C34_OpenIsEventuallyClosed ==
    /\ []OpenCanBeClosed
    /\ \A h \in HelpIds : IsOpen(h) ~> ~IsOpen(h)

\* A help request is open on a ticket that is final and has lost its
\* master since the request was made.
C34_Witness ==
    \E h \in DOMAIN helps :
        /\ helps[h].status = "open"
        /\ tickets[helps[h].request_id].master_id = NULL
        /\ statuses[tickets[helps[h].request_id].status_id].is_final


-----------------------------------------------------------------------------
(* Concurrent closes.  Each close_help_request call runs in its own session *)
(* and transaction (main.py:54-59, database.py:13-14: read committed, no    *)
(* autoflush).  db.get (usecases.py:394, 401) is a plain SELECT, without    *)
(* FOR UPDATE, and models.HelpRequest (models.py:164-181) has no version    *)
(* column: the call checks and changes the rows it loaded, and db.commit()  *)
(* (main.py:1014) sends, for each of the two rows, an UPDATE ... WHERE id   *)
(* of the columns whose value the call changed.  Other calls may commit     *)
(* between the load and the commit.                                         *)

ConcCloseInputs ==
    [help_id : 1..MaxHelpsClose,
     resolution_note : Texts,
     assigned_master_id : {NULL, 5},
     new_due_date : {NULL, MaxDate}]

\* The checks of close_help_request on the rows committed so far.  A call
\* that raises is over (rolled back); one that passes holds the rows as it
\* loaded them and as it changed them.
BeginCloseHelp(p, user, data) ==
    /\ txn[p].pc = "idle"
    /\ \E r \in {close_help_request(Db, user, data, MaxDate)} :
          IF r.exc = OK
          THEN /\ txn' = [txn EXCEPT ![p] =
                              [pc |-> "closing", user |-> user,
                               help_id |-> data.help_id,
                               request_id |-> helps[data.help_id].request_id,
                               help_loaded |-> helps[data.help_id],
                               help_dirty |-> r.db.helps[data.help_id],
                               req_loaded |-> tickets[helps[data.help_id].request_id],
                               req_dirty |-> r.db.tickets[helps[data.help_id].request_id]]]
               /\ UNCHANGED last
          ELSE /\ last' = [op |-> "close_help_request", exc |-> r.exc]
               /\ UNCHANGED txn
    /\ UNCHANGED <<statuses, tickets, helps, comments, equipment_models,
                   issue_types, seq, probe>>

\* The UPDATE the unit of work emits for one row: the columns whose value
\* differs from the loaded one are set, the others keep what is stored.
UpdateRow(stored, loaded, dirty) ==
    [c \in DOMAIN stored |-> IF dirty[c] /= loaded[c] THEN dirty[c] ELSE stored[c]]

\* db.commit() of a call that passed its checks.  The UPDATE of the help
\* request matches no row when the row was deleted in between, and the
\* session raises (StaleDataError, a SQLAlchemyError): rolled back.
CommitCloseHelp(p) ==
    /\ txn[p].pc = "closing"
    /\ txn' = [txn EXCEPT ![p] = Idle]
    /\ IF txn[p].help_id \in DOMAIN helps /\ txn[p].request_id \in DOMAIN tickets
       THEN /\ helps' = [helps EXCEPT ![txn[p].help_id] =
                            UpdateRow(@, txn[p].help_loaded, txn[p].help_dirty)]
            /\ tickets' = [tickets EXCEPT ![txn[p].request_id] =
                            UpdateRow(@, txn[p].req_loaded, txn[p].req_dirty)]
            /\ last' = [op |-> "close_help_request", exc |-> OK]
       ELSE /\ last' = [op |-> "close_help_request", exc |-> "SQLAlchemyError"]
            /\ UNCHANGED <<helps, tickets>>
    /\ UNCHANGED <<statuses, comments, equipment_models, issue_types, seq, probe>>

BeginClose ==
    \E p \in 1..NumTxns, user \in {1, 3}, data \in ConcCloseInputs :
        BeginCloseHelp(p, user, data)

CommitClose ==
    \E p \in 1..NumTxns : CommitCloseHelp(p) /\ BoundedClose

CreateHelpForConcClose ==
    \E user \in MasterUsers, data \in CloseCreateInputs :
        CreateHelpRequest(user, data) /\ BoundedClose

NextConcClose ==
    SaveByManager \/ DeleteByManager \/ CreateHelpForConcClose \/ BeginClose \/ CommitClose

SpecConcClose == Init /\ [][NextConcClose]_vars

\* C35: when two close_help_request calls for the same open help request
\* interleave so that both read status open before either commits, at most
\* one of them succeeds: a close never commits on a help request that is
\* already closed, and the commit of a call that read it open leaves the
\* closed row (note, closing actor, mirror of the master) and the ticket
\* (master, due date) as the successful close wrote them.
C35_ClosedExactlyOnce ==
    [][\A p \in 1..NumTxns :
          (/\ txn[p].pc = "closing"
           /\ txn'[p].pc = "idle"
           /\ txn[p].help_id \in DOMAIN helps
           /\ helps[txn[p].help_id].status = "closed")
          => /\ last'.exc /= OK
             /\ helps' = helps
             /\ tickets' = tickets]_vars

\* A close commits only for a help request that is open in the state the
\* call reads: one call at a time, the second close is refused.
CloseReadsOpen ==
    \A u \in UserIds, data \in ConcCloseInputs :
        (data.help_id \in DOMAIN helps /\ helps[data.help_id].status = "closed")
            => close_help_request(Db, u, data, MaxDate).exc /= OK


-----------------------------------------------------------------------------
(* Who changes a ticket: the five use cases called by every user, on a     *)
(* ticket whose client is the acting Client (6) or another user (2), whose *)
(* master is absent, the Master (4) or the Specialist (5), and whose       *)
(* status is non-final or final.                                           *)

EditSaveInputs ==
    [id : {NULL} \cup TicketIds,
     start_date : {MaxDate},
     equipment_type_id : {1},
     equipment_model_name : {Padded},
     issue_type_id : {NULL},
     problem_description : {Padded},
     status_id : {NULL, 1, 3},
     completion_date : {NULL},
     due_date : {NULL},
     repair_parts : {NoText},
     master_id : {NULL, 4, 5},
     client_id : {2, 6}]

EditCloseInputs ==
    [help_id : 1..MaxHelpsClose,
     resolution_note : {Padded},
     assigned_master_id : {NULL, 5},
     new_due_date : {NULL, MaxDate}]

SaveForEdit ==
    \E user \in UserIds, data \in EditSaveInputs :
        SaveRequest(user, data, MaxDate) /\ BoundedClose

DeleteForEdit ==
    \E user \in UserIds, request_id \in TicketIds :
        DeleteRequest(user, request_id) /\ BoundedClose

CommentForEdit ==
    \E user \in UserIds, request_id \in TicketIds :
        AddComment(user, request_id, Padded) /\ BoundedClose

CreateHelpForEdit ==
    \E user \in UserIds, data \in CloseCreateInputs :
        CreateHelpRequest(user, data) /\ BoundedClose

CloseHelpForEdit ==
    \E user \in UserIds, data \in EditCloseInputs :
        CloseHelpRequest(user, data, MaxDate) /\ BoundedClose

NextEdit ==
    SaveForEdit \/ DeleteForEdit \/ CommentForEdit \/ CreateHelpForEdit \/ CloseHelpForEdit

SpecEdit == Init /\ [][NextEdit]_vars

\* rbac.user_can_edit_request(user, T) in the current state.
MayEdit(user, t) ==
    user_can_edit_request(user, tickets[t], statuses[tickets[t].status_id].is_final)

\* The handler around the call that returned r changes a field of the
\* stored ticket t or removes it.
ChangesTicket(r, t) ==
    \E db2 \in {Committed(r)} :
        t \notin DOMAIN db2.tickets \/ db2.tickets[t] /= tickets[t]

\* C36: every use-case call (save, delete_request, add_comment,
\* create_help_request, close_help_request) that changes a field of an
\* existing ticket T or removes T is made by an actor for whom
\* user_can_edit_request(actor, T) holds in the state before the call: a
\* user who may not edit T changes it with no call.
C36_ChangesByEditorsOnly ==
    \A user \in UserIds, t \in DOMAIN tickets :
        ~MayEdit(user, t) =>
            /\ \A data \in EditSaveInputs :
                  ~ChangesTicket(save_request(Db, user, data, MaxDate), t)
            /\ \A request_id \in TicketIds :
                  /\ ~ChangesTicket(delete_request(Db, user, request_id), t)
                  /\ ~ChangesTicket(add_comment(Db, user, request_id, Padded), t)
            /\ \A data \in CloseCreateInputs :
                  ~ChangesTicket(create_help_request(Db, user, data), t)
            /\ \A data \in EditCloseInputs :
                  ~ChangesTicket(close_help_request(Db, user, data, MaxDate), t)

\* A ticket of another client, final, that a close has just handed from the
\* Master to the Specialist: neither the Client (6) nor the Master (4) may
\* edit it, and the help request on it is still addressed by the calls.
C36_Witness ==
    /\ last = [op |-> "close_help_request", exc |-> OK]
    /\ \E h \in DOMAIN helps, t \in DOMAIN tickets :
          /\ helps[h].request_id = t
          /\ helps[h].created_by_master_id = 4
          /\ tickets[t].master_id = 5
          /\ tickets[t].client_id = 2
          /\ statuses[tickets[t].status_id].is_final
          /\ ~MayEdit(6, t) /\ ~MayEdit(4, t) /\ MayEdit(5, t)


-----------------------------------------------------------------------------
\* The columns of a help request agree with its status.
HelpFieldsConsistent ==
    \A h \in DOMAIN helps :
        /\ helps[h].status \in {"open", "closed"}
        /\ helps[h].status = "open" =>
              /\ helps[h].quality_manager_id = NULL
              /\ helps[h].closed_at = NULL
              /\ helps[h].resolution_note = NoText
              /\ helps[h].assigned_master_id = NULL
        /\ helps[h].status = "closed" =>
              /\ helps[h].closed_at /= NULL
              /\ helps[h].quality_manager_id \in UserIds
              /\ users[helps[h].quality_manager_id] \in HandlerRoles

\* A step leaves the ticket reference, the creator and the message of every
\* help request that stays as they are.
HelpIdentityKept ==
    \A h \in DOMAIN helps \cap DOMAIN helps' :
        /\ helps'[h].request_id = helps[h].request_id
        /\ helps'[h].created_by_master_id = helps[h].created_by_master_id
        /\ helps'[h].message = helps[h].message

\* C37: in every reachable state a help request with status open has no
\* closing actor (quality_manager_id), no closed_at, no resolution note and
\* no assigned-master mirror, and a help request with status closed has a
\* closed_at and a closing actor whose role is Manager or QualityManager;
\* the ticket reference, creator and message of a help request never change
\* after creation.
C37_HelpFieldConsistency ==
    /\ []HelpFieldsConsistent
    /\ [][HelpIdentityKept]_vars

\* An open help request beside a closed one of the same ticket, the closed
\* one with a note and a reassignment.
C37_Witness ==
    \E h1, h2 \in DOMAIN helps :
        /\ helps[h1].status = "closed"
        /\ helps[h1].resolution_note /= NoText
        /\ helps[h1].assigned_master_id = 5
        /\ helps[h2].status = "open"
        /\ helps[h2].request_id = helps[h1].request_id


-----------------------------------------------------------------------------
\* C38: in every state reachable by save, create_help_request and
\* close_help_request calls, the creator of each open help request is the
\* current assigned master of that help request's ticket.
C38_OpenHelpCreatorIsMaster ==
    \A h \in DOMAIN helps :
        helps[h].status = "open" =>
            tickets[helps[h].request_id].master_id = helps[h].created_by_master_id

\* A step that opens a help request records as its creator the master the
\* ticket has at that moment.
CreatorIsMasterAtCreation ==
    \A h \in DOMAIN helps' \ DOMAIN helps :
        /\ helps'[h].status = "open"
        /\ helps'[h].request_id \in DOMAIN tickets
        /\ tickets[helps'[h].request_id].master_id = helps'[h].created_by_master_id

CreatorIsMasterWhenOpened == [][CreatorIsMasterAtCreation]_vars


-----------------------------------------------------------------------------
(* Dates of a ticket: the Manager and the assigned Master save with every  *)
(* start date and due date, and the QualityManager closes a help request   *)
(* with every new due date.                                                *)

DateSaveInputs ==
    [id : {NULL} \cup TicketIds,
     start_date : Dates,
     equipment_type_id : {1},
     equipment_model_name : {Padded},
     issue_type_id : {NULL},
     problem_description : {Padded},
     status_id : {1},
     completion_date : {NULL},
     due_date : {NULL} \cup Dates,
     repair_parts : {NoText},
     master_id : {4},
     client_id : {6}]

DateCloseInputs ==
    [help_id : HelpIds,
     resolution_note : {Padded},
     assigned_master_id : {NULL},
     new_due_date : {NULL} \cup Dates]

SaveForDates ==
    \E user \in {1, 4}, data \in DateSaveInputs :
        SaveRequest(user, data, MaxDate) /\ Bounded

CreateHelpForDates ==
    \E data \in CloseCreateInputs : CreateHelpRequest(4, data) /\ Bounded

CloseHelpForDates ==
    \E data \in DateCloseInputs : CloseHelpRequest(3, data, MaxDate) /\ Bounded

NextDates == SaveForDates \/ CreateHelpForDates \/ CloseHelpForDates

SpecDates == Init /\ [][NextDates]_vars

\* C39: in every state reachable by save and close_help_request calls, a
\* ticket's due date, when set, is not earlier than the ticket's start date.
C39_DueNotBeforeStart ==
    \A t \in DOMAIN tickets :
        tickets[t].due_date /= NULL => tickets[t].due_date >= tickets[t].start_date

\* A committed close that supplies a due date leaves the ticket with a due
\* date that is not before its start date.
CloseKeepsDueAfterStart ==
    \A data \in DateCloseInputs, u \in {1, 3} :
        \E r \in {close_help_request(Db, u, data, MaxDate)} :
            (Succeeds(r) /\ data.new_due_date /= NULL) =>
                \E req \in {r.db.tickets[r.db.helps[data.help_id].request_id]} :
                    req.due_date = data.new_due_date /\ req.due_date >= req.start_date


-----------------------------------------------------------------------------
(* The request list.  ui_requests_list (main.py:164-183) selects the        *)
(* tickets joined to their model, issue type, status and client - columns   *)
(* that are never null, so the joins drop no row - and narrows the query by *)
(* the role of the logged-in user; the search filters of the form are left  *)
(* empty.                                                                   *)

\* The ids of the tickets the query returns for user.
ui_requests_list(db, user) ==
    LET role == role_name(user) IN
    {t \in DOMAIN db.tickets :
        /\ role = ROLE_CLIENT => db.tickets[t].client_id = user
        /\ is_master_role(role) => db.tickets[t].master_id = user}

\* main.py:149-215 for a logged-in user: the page is rendered with the rows
\* of the query.  It writes nothing.
ListRequests(user) ==
    /\ last' = [op |-> "ui_requests_list", user |-> user, exc |-> OK,
                rows |-> ui_requests_list(Db, user)]
    /\ UNCHANGED <<statuses, tickets, helps, comments, equipment_models,
                   issue_types, seq, txn, probe>>

List == \E user \in UserIds : ListRequests(user)

NextList == SaveForAccess \/ List

SpecList == Init /\ [][NextList]_vars

\* C40: for every logged-in user (of any role, an unresolved role included)
\* and every store state, each ticket returned by the role filter of the
\* request list satisfies user_can_view_request(user, ticket).
C40_ListAgreesWithView ==
    \A user \in UserIds :
        \A t \in ui_requests_list(Db, user) :
            user_can_view_request(user, LoadRequest(Db, t))

\* For a user whose role is one of the six known ones the list holds exactly
\* the tickets the user may view.
ListAgreesForKnownRoles ==
    \A user \in UserIds :
        role_name(user) \in KnownRoles =>
            ui_requests_list(Db, user) =
                {t \in DOMAIN tickets : user_can_view_request(user, LoadRequest(Db, t))}

=============================================================================
